---- MODULE Spec2Model ----
(***************************************************************************)
(* The USSD session handler of stock-alert (lib/ussdService.ts) and the    *)
(* document store it reads and writes (lib/firestore-server.ts), and the   *)
(* POST handler of app/api/ussd/route.ts that calls it.                    *)
(*                                                                         *)
(* A request is handled by handleUssdSession.  Every await of the handler  *)
(* is a step of its own, so requests for the same session identifier can   *)
(* interleave and the clock can advance in the middle of a request.        *)
(* Strings the code inspects (the user input) are sequences of one         *)
(* character strings; times are milliseconds.                              *)
(***************************************************************************)
EXTENDS Integers, Sequences, FiniteSets, TLC

VARIABLES
  now,        \* the clock read by new Date() / Date.now()
  sessions,   \* collection 'ussdSessions', in the order a query returns it
  users,      \* collection 'users'
  alerts,     \* collection 'stockAlerts'
  nextId,     \* number of documents added so far (document ids)
  pc,         \* per request slot: the await the handler is suspended at
  req,        \* per request slot: the arguments of handleUssdSession
  ses,        \* per request slot: the local variable `session`
  usr,        \* per request slot: the local variable `user`
  res,        \* per request slot: the local variable `result`
  upd,        \* per request slot: the update in flight in updateDocumentByQuery
  out,        \* per request slot: what handleUssdSession returned
  faults,     \* environment: store and gateway calls that may still fail
  serial,     \* environment: the gateway sends one request at a time
  budget,     \* requests that may still arrive, where their number is bounded
  http,       \* per request slot: the POST request being served and its response
  alertId,    \* per request slot: the local variable `alertId` of processUssdAlert
  call,       \* a call of one of the exported functions: its arguments and what it returned
  dist        \* the distribution of an alert to suppliers in progress, and what it wrote

vars == <<now, sessions, users, alerts, nextId, pc, req, ses, usr, res, upd, out,
          faults, serial, budget, http, alertId, call, dist>>

----------------------------------------------------------------------------
(* Bounds of the model *)

MaxTicks == 3
MaxSessionDocs == 2
MaxAlerts == 2
MaxUsers == 2
MaxRequests == 2
MaxFaults == 1
MaxWord == 24         \* letters of a word of a text
MaxTail == 6          \* letters after the space of a text
MaxPhoneLen == 3      \* characters of an arbitrary raw phone number

(* The clock is read at 0, then 30 s before a session started at 0 expires,
   then every 30 s: a session started at 0 is seen fresh, at the edge of the
   grace period, at its expiry time and after it. *)
ClockStepMs == 30 * 1000
FirstStepMs == 150 * 1000
ClockReading(k) == IF k = 0 THEN 0 ELSE FirstStepMs + (k - 1) * ClockStepMs

Procs == {1, 2}
ATUid_1 == <<"A", "T", "_", "1">>
Phone == <<"+", "2", "5", "4", "7", "0", "0", "0", "0", "0", "0", "0", "0">>
SessionIds == {ATUid_1}
PhoneOf(sid) == Phone
ServiceCode == <<"*", "7", "8", "9", "#">>

(* No bound on the number of requests. *)
Unbounded == 0 - 1

(* The user inputs tried at every level when requests come one at a time. *)
Inputs ==
  { <<>>, <<"0">>, <<"1">>, <<"2">>, <<"3">>, <<"a", "b">>, <<"-", "1">> }

(* The user inputs tried when requests interleave: a valid selection at
   every level of the reporting flow, and a valid name that is no number. *)
RaceInputs == { <<"1">>, <<"a", "b">> }

----------------------------------------------------------------------------
(* USSD_CONFIG *)

SESSION_TIMEOUT_MINUTES == 3
timeoutMs == SESSION_TIMEOUT_MINUTES * 60 * 1000
gracePeriod == 30 * 1000

----------------------------------------------------------------------------
(* JavaScript helpers on strings *)

Null == [null |-> TRUE]

(* A JavaScript number: an integer or NaN. *)
NaN == [nan |-> TRUE, val |-> 0]
Num(n) == [nan |-> FALSE, val |-> n]

IsSpace(c) == c = " "
IsDigit(c) == c \in {"0", "1", "2", "3", "4", "5", "6", "7", "8", "9"}
DigitVal(c) ==
  CASE c = "0" -> 0 [] c = "1" -> 1 [] c = "2" -> 2 [] c = "3" -> 3
    [] c = "4" -> 4 [] c = "5" -> 5 [] c = "6" -> 6 [] c = "7" -> 7
    [] c = "8" -> 8 [] c = "9" -> 9

RECURSIVE TrimStart(_)
TrimStart(s) ==
  IF s # <<>> /\ IsSpace(Head(s)) THEN TrimStart(Tail(s)) ELSE s

RECURSIVE TrimEnd(_)
TrimEnd(s) ==
  IF s # <<>> /\ IsSpace(s[Len(s)]) THEN TrimEnd(SubSeq(s, 1, Len(s) - 1)) ELSE s

(* String.prototype.trim *)
Trim(s) == TrimEnd(TrimStart(s))

RECURSIVE DigitsValue(_, _)
DigitsValue(s, acc) ==
  IF s # <<>> /\ IsDigit(Head(s))
    THEN DigitsValue(Tail(s), 10 * acc + DigitVal(Head(s)))
    ELSE acc

(* parseInt(s): leading white space, a sign, then the longest run of digits;
   NaN when there is no digit. *)
ParseInt(s) ==
  LET t == TrimStart(s)
      neg == t # <<>> /\ Head(t) = "-"
      u == IF t # <<>> /\ Head(t) \in {"-", "+"} THEN Tail(t) ELSE t
  IN  IF u = <<>> \/ ~IsDigit(Head(u)) THEN NaN
      ELSE IF neg THEN Num(0 - DigitsValue(u, 0)) ELSE Num(DigitsValue(u, 0))

isNaN(v) == v.nan

DigitChar(d) == <<"0", "1", "2", "3", "4", "5", "6", "7", "8", "9">>[d + 1]

RECURSIVE DigitsOf(_)
DigitsOf(n) ==
  IF n < 10 THEN <<DigitChar(n)>> ELSE Append(DigitsOf(n \div 10), DigitChar(n % 10))

(* String(n) of an integer below 1e21. *)
NumberToString(n) == IF n < 0 THEN <<"-">> \o DigitsOf(0 - n) ELSE DigitsOf(n)

(* parseInt(userInput) - 1; NaN - 1 is NaN. *)
IndexOf(s) == IF isNaN(ParseInt(s)) THEN NaN ELSE Num(ParseInt(s).val - 1)

(* index >= 0 && index < length; every comparison with NaN is false. *)
InRange(i, length) == ~isNaN(i) /\ i.val >= 0 /\ i.val < length

----------------------------------------------------------------------------
(* processUSSDLevel: the menu state machine *)

drugs ==
  << [id |-> "1", name |-> "Paracetamol", category |-> "Analgesics"],
     [id |-> "2", name |-> "Amoxicillin", category |-> "Antibiotics"],
     [id |-> "3", name |-> "Ibuprofen", category |-> "Analgesics"],
     [id |-> "4", name |-> "Ciprofloxacin", category |-> "Antibiotics"],
     [id |-> "5", name |-> "Insulin", category |-> "Diabetes"],
     [id |-> "6", name |-> "Metformin", category |-> "Diabetes"],
     [id |-> "7", name |-> "Amlodipine", category |-> "Hypertension"],
     [id |-> "8", name |-> "Omeprazole", category |-> "Gastric"] >>

urgencyLevels == << "low", "medium", "high", "critical" >>

maxMenuItems(provider) ==
  CASE provider = "safaricom" -> 8 [] provider = "airtel" -> 6 [] provider = "orange" -> 7

shortMessages(provider) == provider = "airtel"

(* [...new Set(drugs.map(d => d.category))]: the categories in the order of
   their first drug. *)
RECURSIVE Unique(_, _)
Unique(s, seen) ==
  IF s = <<>> THEN <<>>
  ELSE IF Head(s) \in seen THEN Unique(Tail(s), seen)
  ELSE <<Head(s)>> \o Unique(Tail(s), seen \cup {Head(s)})

DrugCategories == Unique([i \in 1..Len(drugs) |-> drugs[i].category], {})

Slice(s, n) == SubSeq(s, 1, IF n < Len(s) THEN n ELSE Len(s))

DrugsOf(category) == SelectSeq(drugs, LAMBDA d : d.category = category)

(* sessionData is an object: a function from the keys set so far. *)
EmptyData == [k \in {} |-> Null]
Has(data, k) == k \in DOMAIN data
With(data, k, v) == [x \in DOMAIN data \cup {k} |-> IF x = k THEN v ELSE data[x]]

(* sessionData.categories || [] *)
ListOr(data, k) == IF Has(data, k) THEN data[k] ELSE <<>>

NoData == [undefined |-> TRUE]

(* What one call returns: nextLevel 0 and sessionData NoData stand for a
   property that is not set.  effect names the awaited call the branch makes
   before it can return: none, alerts (getUserAlerts), submit
   (processUssdAlert) or register (addDocument 'users'). *)
Result(text, args, endSession, nextLevel, data, effect) ==
  [ response |-> [text |-> text, args |-> args],
    endSession |-> endSession,
    nextLevel |-> nextLevel,
    sessionData |-> data,
    effect |-> effect ]

(* Level 1 showing the menu of a registered caller to everyone. *)
Level1_sameForAll(input, user, data, provider) ==
  IF shortMessages(provider)
    THEN Result("Hi {name}!",
                <<"1. Report Stock", "2. My Alerts", "3. Help", "0. Exit">>,
                FALSE, 2, NoData, "none")
    ELSE Result("Welcome {name} to StockAlert",
                <<"1. Report Low Stock", "2. Check My Alerts", "3. Help", "0. Exit">>,
                FALSE, 2, NoData, "none")

(* Level 1 with a greeting that follows the clock. *)
Level1_byTimeOfDay(input, user, data, provider) ==
  IF user # Null
    THEN IF shortMessages(provider)
           THEN Result("Hi {name}!",
                       <<"1. Report Stock", "2. My Alerts", "3. Help", "0. Exit">>,
                       FALSE, 2, NoData, "none")
           ELSE Result("Welcome {name} to StockAlert",
                       <<"1. Report Low Stock", "2. Check My Alerts", "3. Help", "0. Exit">>,
                       FALSE, 2, NoData, "none")
    ELSE IF shortMessages(provider)
           THEN Result("StockAlert",
                       <<"1. Report Stock", "2. Register", "3. Help", "0. Exit">>,
                       FALSE, 2, NoData, "none")
           ELSE Result(IF now > 0 THEN "Good evening from StockAlert" ELSE "Welcome to StockAlert",
                       <<"1. Report Low Stock", "2. Register", "3. Help", "0. Exit">>,
                       FALSE, 2, NoData, "none")

(* The welcome message: its first line and, as args, the lines of its menu. *)
Level1(input, user, data, provider) ==
  IF user # Null
    THEN IF shortMessages(provider)
           THEN Result("Hi {name}!",
                       <<"1. Report Stock", "2. My Alerts", "3. Help", "0. Exit">>,
                       FALSE, 2, NoData, "none")
           ELSE Result("Welcome {name} to StockAlert",
                       <<"1. Report Low Stock", "2. Check My Alerts", "3. Help", "0. Exit">>,
                       FALSE, 2, NoData, "none")
    ELSE IF shortMessages(provider)
           THEN Result("StockAlert",
                       <<"1. Report Stock", "2. Register", "3. Help", "0. Exit">>,
                       FALSE, 2, NoData, "none")
           ELSE Result("Welcome to StockAlert",
                       <<"1. Report Low Stock", "2. Register", "3. Help", "0. Exit">>,
                       FALSE, 2, NoData, "none")

(* Level 2 offering the categories to an unregistered caller too. *)
Level2_noRegistrationCheck(input, user, data, provider) ==
  LET sanitizedInput == Trim(input)
      limitedCategories == Slice(DrugCategories, maxMenuItems(provider) - 1)
  IN
  CASE sanitizedInput = <<"1">> ->
         IF FALSE
           THEN Result(IF shortMessages(provider) THEN "Register first. Enter name:"
                       ELSE "Please register first. Enter your name:",
                       <<>>, FALSE, 10, With(data, "action", "register"), "none")
           ELSE Result(IF shortMessages(provider) THEN "Drug category: {list} 0. Back"
                       ELSE "Select drug category: {list} 0. Back",
                       limitedCategories, FALSE, 3,
                       With(With(data, "action", "report"), "categories", limitedCategories),
                       "none")
    [] sanitizedInput = <<"2">> ->
         IF user = Null
           THEN Result(IF shortMessages(provider) THEN "Register first (option 2)."
                       ELSE "Please register first by selecting option 2 from main menu.",
                       <<>>, TRUE, 0, NoData, "none")
           ELSE Result("getUserAlerts", <<>>, TRUE, 0, NoData, "alerts")
    [] sanitizedInput = <<"3">> ->
         Result(IF shortMessages(provider) THEN "Help: ... Support: 0700123456"
                ELSE "StockAlert Help: ... For support: Call 0700123456",
                <<>>, TRUE, 0, NoData, "none")
    [] sanitizedInput = <<"0">> ->
         Result(IF shortMessages(provider) THEN "Thank you! Stay healthy!"
                ELSE "Thank you for using StockAlert. Stay healthy!",
                <<>>, TRUE, 0, NoData, "none")
    [] OTHER ->
         Result(IF shortMessages(provider) THEN "Invalid. Try again: 1. Report 2. Alerts 3. Help 0. Exit"
                ELSE "Invalid option. Please try again. 1. Report Low Stock 2. Check Alerts 3. Help 0. Exit",
                <<>>, FALSE, 2, NoData, "none")

(* Level 2 ending the session on an input that is not an option. *)
Level2_invalidEnds(input, user, data, provider) ==
  LET sanitizedInput == Trim(input)
      limitedCategories == Slice(DrugCategories, maxMenuItems(provider) - 1)
  IN
  CASE sanitizedInput = <<"1">> ->
         IF user = Null
           THEN Result(IF shortMessages(provider) THEN "Register first. Enter name:"
                       ELSE "Please register first. Enter your name:",
                       <<>>, FALSE, 10, With(data, "action", "register"), "none")
           ELSE Result(IF shortMessages(provider) THEN "Drug category: {list} 0. Back"
                       ELSE "Select drug category: {list} 0. Back",
                       limitedCategories, FALSE, 3,
                       With(With(data, "action", "report"), "categories", limitedCategories),
                       "none")
    [] sanitizedInput = <<"2">> ->
         IF user = Null
           THEN Result(IF shortMessages(provider) THEN "Register first (option 2)."
                       ELSE "Please register first by selecting option 2 from main menu.",
                       <<>>, TRUE, 0, NoData, "none")
           ELSE Result("getUserAlerts", <<>>, TRUE, 0, NoData, "alerts")
    [] sanitizedInput = <<"3">> ->
         Result(IF shortMessages(provider) THEN "Help: ... Support: 0700123456"
                ELSE "StockAlert Help: ... For support: Call 0700123456",
                <<>>, TRUE, 0, NoData, "none")
    [] sanitizedInput = <<"0">> ->
         Result(IF shortMessages(provider) THEN "Thank you! Stay healthy!"
                ELSE "Thank you for using StockAlert. Stay healthy!",
                <<>>, TRUE, 0, NoData, "none")
    [] OTHER ->
         Result(IF shortMessages(provider) THEN "Invalid. Try again: 1. Report 2. Alerts 3. Help 0. Exit"
                ELSE "Invalid option. Please try again. 1. Report Low Stock 2. Check Alerts 3. Help 0. Exit",
                <<>>, TRUE, 0, NoData, "none")

Level2(input, user, data, provider) ==
  LET sanitizedInput == Trim(input)
      limitedCategories == Slice(DrugCategories, maxMenuItems(provider) - 1)
  IN
  CASE sanitizedInput = <<"1">> ->
         IF user = Null
           THEN Result(IF shortMessages(provider) THEN "Register first. Enter name:"
                       ELSE "Please register first. Enter your name:",
                       <<>>, FALSE, 10, With(data, "action", "register"), "none")
           ELSE Result(IF shortMessages(provider) THEN "Drug category: {list} 0. Back"
                       ELSE "Select drug category: {list} 0. Back",
                       limitedCategories, FALSE, 3,
                       With(With(data, "action", "report"), "categories", limitedCategories),
                       "none")
    [] sanitizedInput = <<"2">> ->
         IF user = Null
           THEN Result(IF shortMessages(provider) THEN "Register first (option 2)."
                       ELSE "Please register first by selecting option 2 from main menu.",
                       <<>>, TRUE, 0, NoData, "none")
           ELSE Result("getUserAlerts", <<>>, TRUE, 0, NoData, "alerts")
    [] sanitizedInput = <<"3">> ->
         Result(IF shortMessages(provider) THEN "Help: ... Support: 0700123456"
                ELSE "StockAlert Help: ... For support: Call 0700123456",
                <<>>, TRUE, 0, NoData, "none")
    [] sanitizedInput = <<"0">> ->
         Result(IF shortMessages(provider) THEN "Thank you! Stay healthy!"
                ELSE "Thank you for using StockAlert. Stay healthy!",
                <<>>, TRUE, 0, NoData, "none")
    [] OTHER ->
         Result(IF shortMessages(provider) THEN "Invalid. Try again: 1. Report 2. Alerts 3. Help 0. Exit"
                ELSE "Invalid option. Please try again. 1. Report Low Stock 2. Check Alerts 3. Help 0. Exit",
                <<>>, FALSE, 2, NoData, "none")

(* Level 3 dropping the session data when the caller goes back. *)
Level3_backClears(input, user, data, provider) ==
  LET categories == ListOr(data, "categories")
      categoryIndex == IndexOf(input)
  IN
  IF input = <<"0">>
    THEN Result("Welcome back to StockAlert 1. Report Low Stock 2. Check My Alerts 3. Help 0. Exit",
                <<>>, FALSE, 2, EmptyData, "none")
  ELSE IF InRange(categoryIndex, Len(categories))
    THEN LET selectedCategory == categories[categoryIndex.val + 1]
             categoryDrugs == DrugsOf(selectedCategory)
         IN  Result("Select drug from {category}: {list} 0. Back",
                    <<selectedCategory>> \o [i \in 1..Len(categoryDrugs) |-> categoryDrugs[i].name],
                    FALSE, 4,
                    With(With(data, "selectedCategory", selectedCategory),
                         "categoryDrugs", categoryDrugs),
                    "none")
  ELSE Result("Invalid selection. Please select a valid category number.",
              <<>>, FALSE, 3, NoData, "none")

Level3(input, user, data, provider) ==
  LET categories == ListOr(data, "categories")
      categoryIndex == IndexOf(input)
  IN
  IF input = <<"0">>
    THEN Result("Welcome back to StockAlert 1. Report Low Stock 2. Check My Alerts 3. Help 0. Exit",
                <<>>, FALSE, 2, NoData, "none")
  ELSE IF InRange(categoryIndex, Len(categories))
    THEN LET selectedCategory == categories[categoryIndex.val + 1]
             categoryDrugs == DrugsOf(selectedCategory)
         IN  Result("Select drug from {category}: {list} 0. Back",
                    <<selectedCategory>> \o [i \in 1..Len(categoryDrugs) |-> categoryDrugs[i].name],
                    FALSE, 4,
                    With(With(data, "selectedCategory", selectedCategory),
                         "categoryDrugs", categoryDrugs),
                    "none")
  ELSE Result("Invalid selection. Please select a valid category number.",
              <<>>, FALSE, 3, NoData, "none")

(* Level 4 taking the first drug of the list whatever the number. *)
Level4_firstDrug(input, user, data, provider) ==
  LET categoryDrugs == ListOr(data, "categoryDrugs")
      drugIndex == IndexOf(input)
  IN
  IF input = <<"0">>
    THEN Result("Select drug category: {list} 0. Back",
                ListOr(data, "categories"), FALSE, 3, NoData, "none")
  ELSE IF InRange(drugIndex, Len(categoryDrugs))
    THEN LET selectedDrug == categoryDrugs[1]
         IN  Result("Enter current quantity for {drug} (number only):",
                    <<selectedDrug.name>>, FALSE, 5,
                    With(data, "selectedDrug", selectedDrug), "none")
  ELSE Result("Invalid selection. Please select a valid drug number.",
              <<>>, FALSE, 4, NoData, "none")

(* Level 4 where 0 goes back to the main menu instead of the categories. *)
Level4_backToMenu(input, user, data, provider) ==
  LET categoryDrugs == ListOr(data, "categoryDrugs")
      drugIndex == IndexOf(input)
  IN
  IF input = <<"0">>
    THEN Result("Select drug category: {list} 0. Back",
                ListOr(data, "categories"), FALSE, 2, NoData, "none")
  ELSE IF InRange(drugIndex, Len(categoryDrugs))
    THEN LET selectedDrug == categoryDrugs[drugIndex.val + 1]
         IN  Result("Enter current quantity for {drug} (number only):",
                    <<selectedDrug.name>>, FALSE, 5,
                    With(data, "selectedDrug", selectedDrug), "none")
  ELSE Result("Invalid selection. Please select a valid drug number.",
              <<>>, FALSE, 4, NoData, "none")

Level4(input, user, data, provider) ==
  LET categoryDrugs == ListOr(data, "categoryDrugs")
      drugIndex == IndexOf(input)
  IN
  IF input = <<"0">>
    THEN Result("Select drug category: {list} 0. Back",
                ListOr(data, "categories"), FALSE, 3, NoData, "none")
  ELSE IF InRange(drugIndex, Len(categoryDrugs))
    THEN LET selectedDrug == categoryDrugs[drugIndex.val + 1]
         IN  Result("Enter current quantity for {drug} (number only):",
                    <<selectedDrug.name>>, FALSE, 5,
                    With(data, "selectedDrug", selectedDrug), "none")
  ELSE Result("Invalid selection. Please select a valid drug number.",
              <<>>, FALSE, 4, NoData, "none")

(* Level 5 without the check of the sign. *)
Level5_acceptsNegative(input, user, data, provider) ==
  LET quantity == ParseInt(input)
  IN
  IF isNaN(quantity)
    THEN Result("Please enter a valid number (0 or greater):",
                <<>>, FALSE, 5, NoData, "none")
    ELSE Result("Quantity: {quantity} units Select urgency level: 1. LOW 2. MEDIUM 3. HIGH 4. CRITICAL",
                <<quantity.val>>, FALSE, 6, With(data, "quantity", quantity.val), "none")

(* Level 5 where the quantity replaces the session data instead of joining them. *)
Level5_quantityOnly(input, user, data, provider) ==
  LET quantity == ParseInt(input)
  IN
  IF isNaN(quantity) \/ quantity.val < 0
    THEN Result("Please enter a valid number (0 or greater):",
                <<>>, FALSE, 5, NoData, "none")
    ELSE Result("Quantity: {quantity} units Select urgency level: 1. LOW 2. MEDIUM 3. HIGH 4. CRITICAL",
                <<quantity.val>>, FALSE, 6, With(EmptyData, "quantity", quantity.val), "none")

Level5(input, user, data, provider) ==
  LET quantity == ParseInt(input)
  IN
  IF isNaN(quantity) \/ quantity.val < 0
    THEN Result("Please enter a valid number (0 or greater):",
                <<>>, FALSE, 5, NoData, "none")
    ELSE Result("Quantity: {quantity} units Select urgency level: 1. LOW 2. MEDIUM 3. HIGH 4. CRITICAL",
                <<quantity.val>>, FALSE, 6, With(data, "quantity", quantity.val), "none")

toUpperCase(level) ==
  CASE level = "low" -> "LOW"
    [] level = "medium" -> "MEDIUM"
    [] level = "high" -> "HIGH"
    [] level = "critical" -> "CRITICAL"

(* selectedUrgency with the third entry of the menu read as critical. *)
selectedUrgency_thirdCritical(input) ==
  IF IndexOf(input).val = 2 THEN "critical" ELSE urgencyLevels[IndexOf(input).val + 1]

(* urgencyLevels[urgencyIndex], for an index in range. *)
selectedUrgency(input) == urgencyLevels[IndexOf(input).val + 1]

(* Level 6 ending the session on an invalid urgency. *)
Level6_invalidEnds(input, user, data, provider) ==
  LET urgencyIndex == IndexOf(input)
  IN
  IF InRange(urgencyIndex, Len(urgencyLevels))
    THEN Result("Alert submitted successfully! Drug: {drug} Quantity: {quantity} Urgency: {urgency}",
                << IF Has(data, "selectedDrug") THEN data["selectedDrug"].name ELSE "undefined",
                   IF Has(data, "quantity") THEN Num(data["quantity"]) ELSE NaN,
                   toUpperCase(selectedUrgency(input)) >>,
                TRUE, 0, NoData, "submit")
    ELSE Result("Invalid selection. Please select a valid urgency level.",
                <<>>, TRUE, 0, NoData, "none")

(* Level 6 with a valid urgency calls processUssdAlert before it returns:
   the result here is the one of a successful submission; the handler
   replaces it when the submission fails. *)
Level6(input, user, data, provider) ==
  LET urgencyIndex == IndexOf(input)
  IN
  IF InRange(urgencyIndex, Len(urgencyLevels))
    THEN Result("Alert submitted successfully! Drug: {drug} Quantity: {quantity} Urgency: {urgency}",
                << IF Has(data, "selectedDrug") THEN data["selectedDrug"].name ELSE "undefined",
                   IF Has(data, "quantity") THEN Num(data["quantity"]) ELSE NaN,
                   toUpperCase(selectedUrgency(input)) >>,
                TRUE, 0, NoData, "submit")
    ELSE Result("Invalid selection. Please select a valid urgency level.",
                <<>>, FALSE, 6, NoData, "none")

(* Level 10 taking a single character for a name. *)
Level10_acceptsOneChar(input, user, data, provider) ==
  IF Len(Trim(input)) < 1
    THEN Result("Please enter a valid name (at least 2 characters):",
                <<>>, FALSE, 10, NoData, "none")
    ELSE Result("Enter your hospital/facility name:",
                <<>>, FALSE, 11, With(data, "name", Trim(input)), "none")

Level10(input, user, data, provider) ==
  IF Len(Trim(input)) < 2
    THEN Result("Please enter a valid name (at least 2 characters):",
                <<>>, FALSE, 10, NoData, "none")
    ELSE Result("Enter your hospital/facility name:",
                <<>>, FALSE, 11, With(data, "name", Trim(input)), "none")

Level11(input, user, data, provider) ==
  IF Len(Trim(input)) < 2
    THEN Result("Please enter a valid facility name:",
                <<>>, FALSE, 11, NoData, "none")
    ELSE Result("Enter your location (city/area):",
                <<>>, FALSE, 12, With(data, "facilityName", Trim(input)), "none")

(* Level 12 with a valid location awaits addDocument('users') before it
   returns; the result here is the one of a successful registration. *)
Level12(input, user, data, provider) ==
  IF Len(Trim(input)) < 2
    THEN Result("Please enter a valid location:",
                <<>>, FALSE, 12, NoData, "none")
    ELSE Result("Registration successful! Welcome {name}!",
                <<>>, TRUE, 0, NoData, "register")

processUSSDLevel(level, input, user, data, provider) ==
  CASE level = 1 -> Level1(input, user, data, provider)
    [] level = 2 -> Level2(input, user, data, provider)
    [] level = 3 -> Level3(input, user, data, provider)
    [] level = 4 -> Level4(input, user, data, provider)
    [] level = 5 -> Level5(input, user, data, provider)
    [] level = 6 -> Level6(input, user, data, provider)
    [] level = 10 -> Level10(input, user, data, provider)
    [] level = 11 -> Level11(input, user, data, provider)
    [] level = 12 -> Level12(input, user, data, provider)
    [] OTHER -> Result("Session error. Please dial *789*12345# to start again.",
                       <<>>, TRUE, 0, NoData, "none")

----------------------------------------------------------------------------
(* The document store *)

(* A call to the store or to a gateway succeeds, or fails when the
   environment has faults. *)
Outcomes == IF faults > 0 THEN {TRUE, FALSE} ELSE {TRUE}

(* One call has been made with the outcome ok. *)
Called(ok) == faults' = IF ok THEN faults ELSE faults - 1

(* queryDocuments(collection, field, value) *)
queryDocuments(collection, field, value) ==
  SelectSeq(collection, LAMBDA d : d[field] = value)

(* addDoc gives the document a fresh identifier; a query returns documents
   in the order of their identifiers, so the new document can land anywhere. *)
InsertAt(collection, i, d) ==
  SubSeq(collection, 1, i - 1) \o <<d>> \o SubSeq(collection, i, Len(collection))

(* updateDoc(docRef, fields) *)
Merge(d, fields) ==
  [k \in DOMAIN d |-> IF k \in DOMAIN fields THEN fields[k] ELSE d[k]]

updateDoc(collection, ref, fields) ==
  [i \in 1..Len(collection) |->
     IF collection[i].id = ref THEN Merge(collection[i], fields) ELSE collection[i]]

NoUpdate == [ref |-> 0, fields |-> EmptyData]

(* updateUSSDSession up to the query of updateDocumentByQuery: the fields
   are stamped with the time of the call and the first document of the query
   is the one that will be written. *)
updateUSSDSession(sessionId, updates, t) ==
  LET found == queryDocuments(sessions, "sessionId", sessionId)
  IN  [ ref |-> IF found = <<>> THEN 0 ELSE found[1].id,
        fields |-> With(updates, "lastActivityAt", t) ]

(* The updateDoc of updateDocumentByQuery; updateUSSDSession swallows a
   failure of the query or of the write. *)
CommitUpdate(u, ok) ==
  IF ok /\ u.ref # 0 THEN updateDoc(sessions, u.ref, u.fields) ELSE sessions

----------------------------------------------------------------------------
(* Session expiry *)

(* The comparison the other way round. *)
isSessionExpired_swapped(session, t) == session.expiresAt > t

isSessionExpired(session, t) == t > session.expiresAt

(* A strict comparison: a session with exactly the grace period left is
   not extended. *)
isSessionNearExpiry_strict(session, t) == session.expiresAt - t < gracePeriod

isSessionNearExpiry(session, t) == session.expiresAt - t <= gracePeriod

(* The fields extendSessionTimeout passes to updateUSSDSession. *)
extendSessionTimeout(t) ==
  With(With(EmptyData, "expiresAt", t + timeoutMs), "lastActivityAt", t)

----------------------------------------------------------------------------
(* handleUssdSession *)

NoRequest == [sessionId |-> <<>>, input |-> <<>>, provider |-> "safaricom"]
NoResult == Result("", <<>>, FALSE, 0, NoData, "none")
NoOut == [response |-> [text |-> "", args |-> <<>>], endSession |-> FALSE, nextLevel |-> 0]

Providers == {"safaricom"}

Returned(r) ==
  [response |-> r.response, endSession |-> r.endSession, nextLevel |-> r.nextLevel]

InvalidRequest ==
  [response |-> [text |-> "Invalid request parameters.", args |-> <<>>],
   endSession |-> TRUE, nextLevel |-> 0]

SessionExpired ==
  [response |-> [text |-> "Session expired. Please dial {serviceCode} again.", args |-> <<>>],
   endSession |-> TRUE, nextLevel |-> 0]

ServiceUnavailable ==
  [response |-> [text |-> "Service temporarily unavailable. Please try again later.",
                 args |-> <<>>],
   endSession |-> TRUE, nextLevel |-> 0]

Idle(p) == pc[p] \in {"idle", "done"}

(* The number of requests of a run is bounded. *)
Limited == budget # Unbounded

(* The catch block of handleUssdSession. *)
Caught(p) ==
  /\ pc' = [pc EXCEPT ![p] = "done"]
  /\ out' = [out EXCEPT ![p] = ServiceUnavailable]
  /\ res' = [res EXCEPT ![p] = NoResult]
  /\ upd' = [upd EXCEPT ![p] = NoUpdate]

(* A request arrives: lines 240-249. *)
Start(p, sessionId, input, provider) ==
  /\ Idle(p)
  /\ \A q \in Procs : q < p => ~Idle(q)
  /\ serial => \A q \in Procs : Idle(q)
  /\ Limited => budget > 0
  /\ ~serial => input \in RaceInputs
  /\ budget' = IF Limited THEN budget - 1 ELSE budget
  /\ req' = [req EXCEPT ![p] =
               [sessionId |-> sessionId, input |-> input, provider |-> provider]]
  /\ ses' = [ses EXCEPT ![p] = Null]
  /\ usr' = [usr EXCEPT ![p] = Null]
  /\ res' = [res EXCEPT ![p] = NoResult]
  /\ upd' = [upd EXCEPT ![p] = NoUpdate]
  /\ alertId' = [alertId EXCEPT ![p] = 0]
  /\ IF sessionId = <<>>
       THEN /\ pc' = [pc EXCEPT ![p] = "done"]
            /\ out' = [out EXCEPT ![p] = InvalidRequest]
       ELSE /\ pc' = [pc EXCEPT ![p] = "get"]
            /\ out' = [out EXCEPT ![p] = NoOut]
  /\ UNCHANGED <<now, sessions, users, alerts, nextId, faults, serial, call, dist>>

(* handleUssdSession is called directly. *)
Invoke(p, sessionId, input, provider) ==
  /\ Start(p, sessionId, input, provider)
  /\ UNCHANGED http

(* getUSSDSession: the first document of the query, null when there is none
   and null when the query fails. *)
getUSSDSession(sessionId, ok) ==
  LET found == queryDocuments(sessions, "sessionId", sessionId)
  IN  IF ok /\ found # <<>> THEN found[1] ELSE Null

GetSession(p) ==
  /\ pc[p] = "get"
  /\ \E ok \in Outcomes :
       LET session == getUSSDSession(req[p].sessionId, ok)
       IN  /\ Called(ok)
           /\ ses' = [ses EXCEPT ![p] = session]
           /\ pc' = [pc EXCEPT ![p] = IF session = Null THEN "create" ELSE "check"]
  /\ UNCHANGED <<now, sessions, users, alerts, nextId, req, usr, res, upd, out,
                 serial, budget, http, alertId, call, dist>>

(* createUSSDSession: the new session document. *)
NewSession(id, sessionId, t) ==
  [ id |-> id,
    sessionId |-> sessionId,
    phoneNumber |-> PhoneOf(sessionId),
    currentLevel |-> 1,
    sessionData |-> EmptyData,
    status |-> "active",
    lastActivityAt |-> t,
    expiresAt |-> t + timeoutMs ]

(* createUSSDSession; a failed addDocument is rethrown as 'Session creation
   failed' and reaches the catch block. *)
CreateSession(p) ==
  /\ pc[p] = "create"
  /\ Len(sessions) < MaxSessionDocs
  /\ \E ok \in Outcomes :
       /\ Called(ok)
       /\ IF ok
         THEN \E i \in 1..(Len(sessions) + 1) :
                LET session == NewSession(nextId + 1, req[p].sessionId, now)
                IN  /\ sessions' = InsertAt(sessions, i, session)
                    /\ nextId' = nextId + 1
                    /\ ses' = [ses EXCEPT ![p] = session]
                    /\ pc' = [pc EXCEPT ![p] = "check"]
                    /\ UNCHANGED <<res, upd, out>>
         ELSE /\ Caught(p)
              /\ UNCHANGED <<sessions, nextId, ses>>
  /\ UNCHANGED <<now, users, alerts, req, usr, serial, budget, http, alertId, call, dist>>

(* Lines 258-270: the expiry check and the near-expiry check, up to the
   query of the update either of them starts. *)
CheckExpiry(p) ==
  /\ pc[p] = "check"
  /\ IF isSessionExpired(ses[p], now)
       THEN /\ upd' = [upd EXCEPT ![p] =
                         updateUSSDSession(req[p].sessionId,
                                           With(EmptyData, "status", "expired"), now)]
            /\ pc' = [pc EXCEPT ![p] = "expire"]
       ELSE IF isSessionNearExpiry(ses[p], now)
         THEN /\ upd' = [upd EXCEPT ![p] =
                           updateUSSDSession(req[p].sessionId,
                                             extendSessionTimeout(now), now)]
              /\ pc' = [pc EXCEPT ![p] = "extend"]
         ELSE /\ upd' = upd
              /\ pc' = [pc EXCEPT ![p] = "user"]
  /\ UNCHANGED <<now, sessions, users, alerts, nextId, req, ses, usr, res, out,
                 faults, serial, budget, http, alertId, call, dist>>

(* Lines 260-264: the session is marked expired and the request ends. *)
ExpireWrite(p) ==
  /\ pc[p] = "expire"
  /\ \E ok \in Outcomes : Called(ok) /\ sessions' = CommitUpdate(upd[p], ok)
  /\ upd' = [upd EXCEPT ![p] = NoUpdate]
  /\ pc' = [pc EXCEPT ![p] = "done"]
  /\ out' = [out EXCEPT ![p] = SessionExpired]
  /\ UNCHANGED <<now, users, alerts, nextId, req, ses, usr, res, serial, budget, http, alertId, call, dist>>

(* Line 269: the write of extendSessionTimeout. *)
ExtendWrite(p) ==
  /\ pc[p] = "extend"
  /\ \E ok \in Outcomes : Called(ok) /\ sessions' = CommitUpdate(upd[p], ok)
  /\ upd' = [upd EXCEPT ![p] = NoUpdate]
  /\ pc' = [pc EXCEPT ![p] = "user"]
  /\ UNCHANGED <<now, users, alerts, nextId, req, ses, usr, res, out, serial, budget, http, alertId, call, dist>>

(* getUserByPhone: null when there is no user and null when the query fails. *)
getUserByPhone(phoneNumber, ok) ==
  LET found == queryDocuments(users, "phoneNumber", phoneNumber)
  IN  IF ok /\ found # <<>> THEN found[1] ELSE Null

GetUser(p) ==
  /\ pc[p] = "user"
  /\ \E ok \in Outcomes :
       /\ Called(ok)
       /\ usr' = [usr EXCEPT ![p] = getUserByPhone(PhoneOf(req[p].sessionId), ok)]
  /\ pc' = [pc EXCEPT ![p] = "level"]
  /\ UNCHANGED <<now, sessions, users, alerts, nextId, req, ses, res, upd, out,
                 serial, budget, http, alertId, call, dist>>

(* getUserAlerts: the three most recent alerts of the user.  createdAt is the
   time of the addDocument, so the collection is kept in the order of
   creation and the sort by createdAt, newest first, is its reverse. *)
Reverse(s) == [i \in 1..Len(s) |-> s[Len(s) + 1 - i]]

getUserAlerts(userId, ok) ==
  LET found == queryDocuments(alerts, "hospitalId", userId)
      sortedAlerts == Slice(Reverse(found), 3)
  IN  IF ~ok
        THEN Result("Unable to fetch alerts. Please try again later.",
                    <<>>, TRUE, 0, NoData, "none")
      ELSE IF found = <<>>
        THEN Result("No alerts found. Dial *789*12345# to report stock issues.",
                    <<>>, TRUE, 0, NoData, "none")
      ELSE Result("Your recent alerts: {list} For more details, visit the StockAlert app.",
                  [i \in 1..Len(sortedAlerts) |-> sortedAlerts[i].drugName],
                  TRUE, 0, NoData, "none")

(* Line 276: processUSSDLevel up to its first await.  The arguments of
   processUssdAlert are evaluated before the call: user!.uid and
   sessionData.selectedDrug.id throw a TypeError on a null user and on a
   missing drug, which reaches the catch block of handleUssdSession. *)
ProcessLevel(p) ==
  /\ pc[p] = "level"
  /\ LET r == processUSSDLevel(ses[p].currentLevel, req[p].input, usr[p],
                               ses[p].sessionData, req[p].provider)
     IN  CASE r.effect = "none" ->
                /\ res' = [res EXCEPT ![p] = r]
                /\ pc' = [pc EXCEPT ![p] = "final"]
                /\ UNCHANGED <<out, upd, faults>>
           [] r.effect = "alerts" ->
                /\ \E ok \in Outcomes :
                     /\ Called(ok)
                     /\ res' = [res EXCEPT ![p] = getUserAlerts(usr[p].uid, ok)]
                /\ pc' = [pc EXCEPT ![p] = "final"]
                /\ UNCHANGED <<out, upd>>
           [] r.effect = "submit" ->
                /\ IF usr[p] = Null \/ ~Has(ses[p].sessionData, "selectedDrug")
                     THEN Caught(p)
                     ELSE /\ res' = [res EXCEPT ![p] = r]
                          /\ pc' = [pc EXCEPT ![p] = "alert"]
                          /\ UNCHANGED <<out, upd>>
                /\ UNCHANGED faults
           [] r.effect = "register" ->
                /\ res' = [res EXCEPT ![p] = r]
                /\ pc' = [pc EXCEPT ![p] = "register"]
                /\ UNCHANGED <<out, upd, faults>>
  /\ UNCHANGED <<now, sessions, users, alerts, nextId, req, ses, usr, serial, budget, http, alertId, call, dist>>

Undefined == "undefined"

(* value || fallback on strings *)
OrElse(v, fallback) == IF v = Undefined \/ v = "" THEN fallback ELSE v

(* NewAlert with the overall urgency left at the lowest level. *)
NewAlert_overallLow(id, session, user, urgencyLevel) ==
  [ id |-> id,
    hospitalId |-> user.uid,
    hospitalName |-> OrElse(user.facilityName, OrElse(user.name, "Unknown Hospital")),
    drugId |-> session.sessionData["selectedDrug"].id,
    drugName |-> session.sessionData["selectedDrug"].name,
    requestedQuantity |-> IF Has(session.sessionData, "quantity")
                            THEN ParseInt(NumberToString(session.sessionData["quantity"]))
                            ELSE NaN,
    urgencyLevel |-> urgencyLevel,
    overallUrgency |-> "low",
    address |-> user.location,
    status |-> "pending",
    bySession |-> session.sessionId ]

(* The alertData of processUssdAlert, with the arguments level 6 passes:
   the quantity is parseInt of the stored number.  bySession is not a field
   of the document: it records which session's request created the alert. *)
NewAlert(id, session, user, urgencyLevel) ==
  [ id |-> id,
    hospitalId |-> user.uid,
    hospitalName |-> OrElse(user.facilityName, OrElse(user.name, "Unknown Hospital")),
    drugId |-> session.sessionData["selectedDrug"].id,
    drugName |-> session.sessionData["selectedDrug"].name,
    requestedQuantity |-> IF Has(session.sessionData, "quantity")
                            THEN ParseInt(NumberToString(session.sessionData["quantity"]))
                            ELSE NaN,
    urgencyLevel |-> urgencyLevel,
    overallUrgency |-> urgencyLevel,
    address |-> user.location,
    status |-> "pending",
    bySession |-> session.sessionId ]

(* addDoc rejects a document with an undefined field unless the store was
   configured to ignore them; the configuration is outside the handler. *)
AddOutcomes(d) ==
  IF d.hospitalId = Undefined THEN {TRUE, FALSE} ELSE Outcomes

SubmitFailed ==
  Result("Failed to submit alert. Please try again later or contact support.",
         <<>>, TRUE, 0, NoData, "none")

(* processUssdAlert, line 100: the alert is added; a failure is caught at
   line 113, where the update that marks the session cancelled starts. *)
AlertAdd(p) ==
  /\ pc[p] = "alert"
  /\ Len(alerts) < MaxAlerts
  /\ LET alert == NewAlert(nextId + 1, ses[p], usr[p], selectedUrgency(req[p].input))
     IN  \E ok \in AddOutcomes(alert) :
           /\ faults' = IF ok \/ alert.hospitalId = Undefined THEN faults ELSE faults - 1
           /\ IF ok
                THEN /\ alerts' = Append(alerts, alert)
                     /\ nextId' = nextId + 1
                     /\ alertId' = [alertId EXCEPT ![p] = alert.id]
                     /\ pc' = [pc EXCEPT ![p] = "notify"]
                     /\ upd' = upd
                ELSE /\ upd' = [upd EXCEPT ![p] =
                                  updateUSSDSession(req[p].sessionId,
                                                    With(EmptyData, "status", "cancelled"), now)]
                     /\ pc' = [pc EXCEPT ![p] = "status"]
                     /\ UNCHANGED <<alerts, nextId, alertId>>
  /\ UNCHANGED <<now, sessions, users, req, ses, usr, res, out, serial, budget, http, call, dist>>

(* processUssdAlert, lines 104-110: distributeAlertToSuppliers catches its
   own errors; rewardUserWithAirtime throws when the record of the reward
   cannot be written.  Then the update that marks the session completed (or,
   from the catch block, cancelled) starts. *)
AlertNotify(p) ==
  /\ pc[p] = "notify"
  /\ \E ok \in Outcomes :
       /\ Called(ok)
       /\ upd' = [upd EXCEPT ![p] =
                    updateUSSDSession(req[p].sessionId,
                                      With(EmptyData, "status",
                                           IF ok THEN "completed" ELSE "cancelled"), now)]
  /\ pc' = [pc EXCEPT ![p] = "status"]
  /\ UNCHANGED <<now, sessions, users, alerts, nextId, req, ses, usr, res, out,
                 serial, budget, http, alertId, call, dist>>

(* Lines 110 and 115: the session is marked completed and processUssdAlert
   returns true, or it is marked cancelled and processUssdAlert returns
   false; level 6 returns the message of the outcome. *)
StatusWrite(p) ==
  /\ pc[p] = "status"
  /\ \E ok \in Outcomes : Called(ok) /\ sessions' = CommitUpdate(upd[p], ok)
  /\ res' = [res EXCEPT ![p] =
               IF upd[p].fields["status"] = "completed" THEN res[p] ELSE SubmitFailed]
  /\ upd' = [upd EXCEPT ![p] = NoUpdate]
  /\ pc' = [pc EXCEPT ![p] = "final"]
  /\ UNCHANGED <<now, users, alerts, nextId, req, ses, usr, out, serial, budget, http, alertId, call, dist>>

(* The newUserData of level 12; the document has no uid. *)
NewUser(id, session, location) ==
  [ id |-> id,
    uid |-> Undefined,
    name |-> IF Has(session.sessionData, "name")
               THEN session.sessionData["name"] ELSE <<>>,
    facilityName |-> IF Has(session.sessionData, "facilityName")
                       THEN session.sessionData["facilityName"] ELSE <<>>,
    location |-> location,
    phoneNumber |-> session.phoneNumber,
    role |-> "hospital" ]

RegistrationFailed ==
  Result("Registration failed. Please try again later.", <<>>, TRUE, 0, NoData, "none")

(* Level 12, lines 609-620: the user document is added. *)
RegisterAdd(p) ==
  /\ pc[p] = "register"
  /\ Len(users) < MaxUsers
  /\ \E ok \in Outcomes :
       /\ Called(ok)
       /\ IF ok
         THEN /\ \E i \in 1..(Len(users) + 1) :
                   users' = InsertAt(users, i,
                                     NewUser(nextId + 1, ses[p], Trim(req[p].input)))
              /\ nextId' = nextId + 1
              /\ res' = res
         ELSE /\ res' = [res EXCEPT ![p] = RegistrationFailed]
              /\ UNCHANGED <<users, nextId>>
  /\ pc' = [pc EXCEPT ![p] = "final"]
  /\ UNCHANGED <<now, sessions, alerts, req, ses, usr, upd, out, serial, budget, http, alertId, call, dist>>

(* result.nextLevel || session.currentLevel *)
LevelOr(nextLevel, currentLevel) == IF nextLevel = 0 THEN currentLevel ELSE nextLevel

(* result.sessionData || session.sessionData *)
DataOr(data, sessionData) == IF data = NoData THEN sessionData ELSE data

(* The update also puts the session back to active. *)
updateData_reactivates(result, session, t) ==
  With(With(With(With(EmptyData, "currentLevel",
                      LevelOr(result.nextLevel, session.currentLevel)),
                 "lastActivityAt", t),
            "sessionData", DataOr(result.sessionData, session.sessionData)),
       "status", "active")

(* The update writes back the expiry time of the session as it was read. *)
updateData_staleExpiry(result, session, t) ==
  With(With(With(With(EmptyData, "currentLevel",
                      LevelOr(result.nextLevel, session.currentLevel)),
                 "lastActivityAt", t),
            "sessionData", DataOr(result.sessionData, session.sessionData)),
       "expiresAt", session.expiresAt)

(* Lines 279-286: the updateData of the request. *)
updateData(result, session, t) ==
  With(With(With(EmptyData, "currentLevel", LevelOr(result.nextLevel, session.currentLevel)),
            "lastActivityAt", t),
       "sessionData", DataOr(result.sessionData, session.sessionData))

(* Line 288 up to the query of the update. *)
FinalUpdate(p) ==
  /\ pc[p] = "final"
  /\ upd' = [upd EXCEPT ![p] =
               updateUSSDSession(req[p].sessionId, updateData(res[p], ses[p], now), now)]
  /\ pc' = [pc EXCEPT ![p] = "write"]
  /\ UNCHANGED <<now, sessions, users, alerts, nextId, req, ses, usr, res, out,
                 faults, serial, budget, http, alertId, call, dist>>

(* Line 288, the write, and the return of lines 290-296. *)
FinalWrite(p) ==
  /\ pc[p] = "write"
  /\ \E ok \in Outcomes : Called(ok) /\ sessions' = CommitUpdate(upd[p], ok)
  /\ upd' = [upd EXCEPT ![p] = NoUpdate]
  /\ out' = [out EXCEPT ![p] = Returned(res[p])]
  /\ pc' = [pc EXCEPT ![p] = "done"]
  /\ UNCHANGED <<now, users, alerts, nextId, req, ses, usr, res, serial, budget, http, alertId, call, dist>>

(* Time passes. *)
Tick ==
  /\ \E k \in 0..(MaxTicks - 1) :
       /\ now = ClockReading(k)
       /\ now' = ClockReading(k + 1)
  /\ UNCHANGED <<sessions, users, alerts, nextId, pc, req, ses, usr, res, upd, out,
                 faults, serial, budget, http, alertId, call, dist>>

----------------------------------------------------------------------------
(* POST /api/ussd *)

REQUEST_TIMEOUT_MS == 10000
MAX_REQUEST_SIZE == 1024

Letters ==
  { "a", "b", "c", "d", "e", "f", "g", "h", "i", "j", "k", "l", "m",
    "n", "o", "p", "q", "r", "s", "t", "u", "v", "w", "x", "y", "z",
    "A", "B", "C", "D", "E", "F", "G", "H", "I", "J", "K", "L", "M",
    "N", "O", "P", "Q", "R", "S", "T", "U", "V", "W", "X", "Y", "Z" }

StartsWith(s, prefix) ==
  Len(s) >= Len(prefix) /\ SubSeq(s, 1, Len(prefix)) = prefix

(* NETWORK_CODES and detectProvider; "" is a missing network code. *)
detectProvider(networkCode) ==
  IF networkCode = "" THEN "safaricom"
  ELSE IF networkCode \in {"63902", "63903"} THEN "safaricom"
  ELSE IF networkCode \in {"63907"} THEN "airtel"
  ELSE IF networkCode \in {"63905"} THEN "orange"
  ELSE "safaricom"

(* phoneNumber.replace(/[^\d+]/g, '') *)
IsPhoneChar(c) == IsDigit(c) \/ c = "+"

(* formatPhoneNumber without the branch for a number that starts with the
   country code. *)
formatPhoneNumber_noCountryCode(phoneNumber) ==
  LET cleaned == SelectSeq(phoneNumber, IsPhoneChar)
  IN  IF StartsWith(cleaned, <<"+", "2", "5", "4">>) THEN cleaned
      ELSE IF StartsWith(cleaned, <<"0">>) /\ Len(cleaned) = 10
             THEN <<"+", "2", "5", "4">> \o Tail(cleaned)
      ELSE IF Len(cleaned) = 9 THEN <<"+", "2", "5", "4">> \o cleaned
      ELSE <<"+", "2", "5", "4">> \o cleaned

formatPhoneNumber(phoneNumber) ==
  LET cleaned == SelectSeq(phoneNumber, IsPhoneChar)
  IN  IF StartsWith(cleaned, <<"+", "2", "5", "4">>) THEN cleaned
      ELSE IF StartsWith(cleaned, <<"2", "5", "4">>) THEN <<"+">> \o cleaned
      ELSE IF StartsWith(cleaned, <<"0">>) /\ Len(cleaned) = 10
             THEN <<"+", "2", "5", "4">> \o Tail(cleaned)
      ELSE IF Len(cleaned) = 9 THEN <<"+", "2", "5", "4">> \o cleaned
      ELSE <<"+", "2", "5", "4">> \o cleaned

(* /^\+254[17]\d{8}$/ *)
ValidPhone(s) ==
  /\ Len(s) = 13
  /\ SubSeq(s, 1, 4) = <<"+", "2", "5", "4">>
  /\ s[5] \in {"1", "7"}
  /\ \A i \in 6..13 : IsDigit(s[i])

(* /^[a-zA-Z0-9_-]+$/ *)
ValidSessionId(s) ==
  /\ s # <<>>
  /\ \A i \in 1..Len(s) : s[i] \in Letters \/ IsDigit(s[i]) \/ s[i] \in {"_", "-"}

(* text.split('*'), its last part. *)
LastPart(text) ==
  LET stars == {i \in 1..Len(text) : text[i] = "*"}
  IN  IF stars = {} THEN text
      ELSE SubSeq(text, (CHOOSE i \in stars : \A j \in stars : j <= i) + 1, Len(text))

(* Lines 82-91: the current input is the last part of the text, trimmed and
   cut to 50 characters. *)
userInput(text) ==
  IF Trim(text) = <<>> THEN <<>>
  ELSE LET last == Trim(LastPart(text))
       IN  IF Len(last) > 50 THEN SubSeq(last, 1, 50) ELSE last

(* processRequest without the check of the service code. *)
processRequest_noServiceCode(r) ==
  IF r.contentLength > MAX_REQUEST_SIZE THEN "Request too large"
  ELSE IF Trim(r.sessionId) = <<>> \/ Trim(r.phoneNumber) = <<>>
         THEN "Missing required parameters: sessionId, serviceCode, phoneNumber"
  ELSE IF ~ValidSessionId(r.sessionId) THEN "Invalid sessionId format"
  ELSE ""

(* processRequest, lines 22-63: the message of the error it throws, "" when
   it returns the parameters.  A missing parameter is an empty one. *)
processRequest(r) ==
  IF r.contentLength > MAX_REQUEST_SIZE THEN "Request too large"
  ELSE IF Trim(r.sessionId) = <<>> \/ Trim(r.serviceCode) = <<>> \/ Trim(r.phoneNumber) = <<>>
         THEN "Missing required parameters: sessionId, serviceCode, phoneNumber"
  ELSE IF ~ValidSessionId(r.sessionId) THEN "Invalid sessionId format"
  ELSE ""

(* A response body: for text/plain the prefix and the text after it, for
   JSON the result or the error details. *)
Body(status, json, prefix, response, endSession) ==
  [status |-> status, json |-> json, prefix |-> prefix, response |-> response,
   endSession |-> endSession]

NoBody == Body(0, FALSE, "", [text |-> "", args |-> <<>>], FALSE)

(* ResultBody with the two prefixes exchanged. *)
ResultBody_swapped(json, result) ==
  IF json THEN Body(200, TRUE, "", result.response, result.endSession)
  ELSE Body(200, FALSE, IF result.endSession THEN "CON" ELSE "END",
            result.response, result.endSession)

(* Lines 106-144.  The result of handleUssdSession has been cut to
   MAX_RESPONSE_LENGTH by truncateResponse, so the cut of lines 124-126 leaves
   it as it is. *)
ResultBody(json, result) ==
  IF json THEN Body(200, TRUE, "", result.response, result.endSession)
  ELSE Body(200, FALSE, IF result.endSession THEN "END" ELSE "CON",
            result.response, result.endSession)

(* Lines 146-181: the catch of POST.  Of the messages thrown, 'Request
   timeout' contains 'timeout', the two format errors contain 'Invalid', and
   'Request too large' contains none of the words looked for. *)
ErrorBody(json, errorMessage) ==
  IF json
    THEN Body(500, TRUE, "", [text |-> "Service error", args |-> <<errorMessage>>], FALSE)
    ELSE Body(200, FALSE, "END",
              [text |-> IF errorMessage = "Request timeout"
                          THEN "Request timeout. Please try again."
                        ELSE IF errorMessage \in
                                  { "Invalid sessionId format",
                                    "Invalid phone number format",
                                    "Missing required parameters: sessionId, serviceCode, phoneNumber" }
                          THEN errorMessage
                        ELSE "Service temporarily unavailable. Please try again later.",
               args |-> <<>>],
              TRUE)

(* A well-formed form-encoded request of the gateway. *)
Base ==
  [ contentLength |-> 100, json |-> FALSE, sessionId |-> ATUid_1,
    serviceCode |-> ServiceCode, phoneNumber |-> Phone, text |-> <<"1">>,
    networkCode |-> "63902" ]

(* The requests sent: the well-formed one with each text, and with one of its
   other parts changed.  Every phone number that passes the validation is a
   spelling of Phone. *)
RouteRequests ==
  {[Base EXCEPT !.text = t] :
      t \in { <<>>, <<"1">>, <<"2">>, <<"3">>, <<"4">>, <<"1", "*", "a", "b">>,
              <<"2", "*", " ", "1", " ">> }}
  \cup {[Base EXCEPT !.sessionId = v] : v \in { <<>>, <<" ">>, <<"A", " ", "1">> }}
  \cup {[Base EXCEPT !.phoneNumber = v] :
          v \in { <<>>,
                  <<"0", "7", "0", "0", " ", "0", "0", "0", " ", "0", "0", "0">>,
                  <<"2", "5", "4", "7", "0", "0", "0", "0", "0", "0", "0", "0">>,
                  <<"7", "0", "0", "0", "0", "0", "0", "0", "0">>,
                  <<"0", "1", "2", "3">> }}
  \cup {[Base EXCEPT !.serviceCode = <<>>]}
  \cup {[Base EXCEPT !.contentLength = 2 * MAX_REQUEST_SIZE]}
  \cup {[Base EXCEPT !.json = TRUE]}
  \cup {[Base EXCEPT !.networkCode = v] : v \in {"", "63907"}}

NoPost ==
  [phase |-> "none", request |-> Base, startTime |-> 0, processingTime |-> 0,
   body |-> NoBody]

Serving(p) == http[p].phase \in {"parsing", "handling"}

(* POST returns the body. *)
Respond(p, body) ==
  http' = [http EXCEPT ![p] = [@ EXCEPT !.phase = "responded",
                                        !.processingTime = now - http[p].startTime,
                                        !.body = body]]

(* Lines 13-20: a request arrives, the timer is set. *)
PostStart(p, r) ==
  /\ ~Serving(p)
  /\ Idle(p)
  /\ \A q \in Procs : q < p => Serving(q)
  /\ serial => \A q \in Procs : ~Serving(q)
  /\ Limited => budget > 0
  /\ http' = [http EXCEPT ![p] =
                [phase |-> "parsing", request |-> r, startTime |-> now,
                 processingTime |-> 0, body |-> NoBody]]
  /\ UNCHANGED <<now, sessions, users, alerts, nextId, pc, req, ses, usr, res, upd,
                 out, faults, serial, budget, alertId, call, dist>>

(* Lines 65-104: processRequest settles before the timer; the request is
   refused, or handleUssdSession is called. *)
PostParsed(p) ==
  /\ http[p].phase = "parsing"
  /\ now - http[p].startTime < REQUEST_TIMEOUT_MS
  /\ LET r == http[p].request
         errorMessage ==
           IF processRequest(r) # "" THEN processRequest(r)
           ELSE IF ~ValidPhone(formatPhoneNumber(r.phoneNumber))
                  THEN "Invalid phone number format"
           ELSE ""
     IN  IF errorMessage # ""
           THEN /\ Respond(p, ErrorBody(r.json, errorMessage))
                /\ UNCHANGED <<now, sessions, users, alerts, nextId, pc, req, ses, usr,
                               res, upd, out, faults, serial, budget, alertId, call, dist>>
           ELSE /\ Start(p, r.sessionId, userInput(r.text), detectProvider(r.networkCode))
                /\ http' = [http EXCEPT ![p].phase = "handling"]

(* Lines 18-20 and 65-68: the timer settles the race before processRequest. *)
PostTimeout(p) ==
  /\ http[p].phase = "parsing"
  /\ now - http[p].startTime >= REQUEST_TIMEOUT_MS
  /\ Respond(p, ErrorBody(http[p].request.json, "Request timeout"))
  /\ UNCHANGED <<now, sessions, users, alerts, nextId, pc, req, ses, usr, res, upd,
                 out, faults, serial, budget, alertId, call, dist>>

(* Lines 97-144: handleUssdSession has returned. *)
PostRespond(p) ==
  /\ http[p].phase = "handling"
  /\ pc[p] = "done"
  /\ Respond(p, ResultBody(http[p].request.json, out[p]))
  /\ UNCHANGED <<now, sessions, users, alerts, nextId, pc, req, ses, usr, res, upd,
                 out, faults, serial, budget, alertId, call, dist>>

(* No alert is being distributed: the suppliers and the notification methods
   still to go, the answer of sendSMS, the calls of sendSMS made, and the
   collections 'alertDistributions' and 'smsDeliveries'. *)
NoDistribution ==
  [pc |-> "idle", suppliers |-> <<>>, methods |-> <<>>, smsResponse |-> Null,
   attempts |-> <<>>, visited |-> <<>>, alertDistributions |-> <<>>, smsDeliveries |-> <<>>]

(* No call has been made. *)
NoCall == [fn |-> "none", args |-> <<>>, returned |-> FALSE, result |-> <<>>, again |-> <<>>]

----------------------------------------------------------------------------
(* A hospital user registered through the web application. *)
WebUser ==
  [ id |-> 1,
    uid |-> "hospital-1",
    name |-> <<"T", "e", "s", "t">>,
    facilityName |-> <<"H", "o", "s", "p">>,
    location |-> <<"N", "b", "i">>,
    phoneNumber |-> Phone,
    role |-> "hospital" ]

InitProcs ==
  /\ now = 0
  /\ pc = [p \in Procs |-> "idle"]
  /\ req = [p \in Procs |-> NoRequest]
  /\ ses = [p \in Procs |-> Null]
  /\ usr = [p \in Procs |-> Null]
  /\ res = [p \in Procs |-> NoResult]
  /\ upd = [p \in Procs |-> NoUpdate]
  /\ out = [p \in Procs |-> NoOut]
  /\ http = [p \in Procs |-> NoPost]
  /\ alertId = [p \in Procs |-> 0]
  /\ call = NoCall
  /\ dist = NoDistribution

(* The store before the first request: no session, no alert, the caller
   registered or not. *)
EmptyStore ==
  /\ sessions = <<>>
  /\ alerts = <<>>
  /\ \/ users = <<>> /\ nextId = 0
     \/ users = <<WebUser>> /\ nextId = 1

(* The session of a registered caller who has chosen the first category, its
   first drug and the quantity 10 at time 0, as the menu computes it. *)
ReadyData ==
  LET d2 == Level2(<<"1">>, WebUser, EmptyData, "safaricom").sessionData
      d3 == Level3(<<"1">>, WebUser, d2, "safaricom").sessionData
      d4 == Level4(<<"1">>, WebUser, d3, "safaricom").sessionData
  IN  Level5(<<"1", "0">>, WebUser, d4, "safaricom").sessionData

ReadySession(id, sessionId) ==
  [NewSession(id, sessionId, 0) EXCEPT !.currentLevel = 6, !.sessionData = ReadyData]

ReadyStore ==
  /\ sessions = <<ReadySession(2, ATUid_1)>>
  /\ alerts = <<>>
  /\ users = <<WebUser>>
  /\ nextId = 2

(* The session of an unregistered caller who has entered a name and a
   facility name at time 0, as the menu computes it. *)
RegisteringData ==
  LET d2 == Level2(<<"1">>, Null, EmptyData, "safaricom").sessionData
      d10 == Level10(<<"a", "b">>, Null, d2, "safaricom").sessionData
  IN  Level11(<<"a", "b">>, Null, d10, "safaricom").sessionData

RegisteringSession(id, sessionId) ==
  [NewSession(id, sessionId, 0) EXCEPT !.currentLevel = 12, !.sessionData = RegisteringData]

RegisteringStore ==
  /\ sessions = <<RegisteringSession(1, ATUid_1)>>
  /\ alerts = <<>>
  /\ users = <<>>
  /\ nextId = 1

(* The session of an unregistered caller who has chosen to report at time 0
   and is asked for the name, as the menu computes it. *)
NamingData == Level2(<<"1">>, Null, EmptyData, "safaricom").sessionData

NamingSession(id, sessionId) ==
  [NewSession(id, sessionId, 0) EXCEPT !.currentLevel = 10, !.sessionData = NamingData]

NamingStore ==
  /\ sessions = <<NamingSession(1, ATUid_1)>>
  /\ alerts = <<>>
  /\ users = <<>>
  /\ nextId = 1

(* The gateway sends one request at a time (section 5 of the design) and the
   store and the gateways answer. *)
Init ==
  /\ InitProcs
  /\ EmptyStore
  /\ faults = 0 /\ serial = TRUE /\ budget = Unbounded

(* Requests for one session identifier interleave and the store and the
   gateways may fail; a run has MaxRequests requests and MaxFaults failures,
   and starts before the first request, with a session that is ready to
   submit or with one that is ready to register. *)
InitConcurrent ==
  /\ InitProcs
  /\ (EmptyStore \/ ReadyStore \/ RegisteringStore)
  /\ faults = MaxFaults /\ serial = FALSE /\ budget = MaxRequests

Next ==
  \/ Tick
  \/ \E p \in Procs :
       \/ \E sessionId \in SessionIds \cup {<<>>}, input \in Inputs, provider \in Providers :
            Invoke(p, sessionId, input, provider)
       \/ GetSession(p)
       \/ CreateSession(p)
       \/ CheckExpiry(p)
       \/ ExpireWrite(p)
       \/ ExtendWrite(p)
       \/ GetUser(p)
       \/ ProcessLevel(p)
       \/ AlertAdd(p)
       \/ AlertNotify(p)
       \/ StatusWrite(p)
       \/ RegisterAdd(p)
       \/ FinalUpdate(p)
       \/ FinalWrite(p)

(* The requests come through POST /api/ussd, one at a time, and the store
   and the gateways may fail; a run has MaxRequests requests handled and
   MaxFaults failures. *)
InitRoute ==
  /\ InitProcs
  /\ (EmptyStore \/ ReadyStore \/ RegisteringStore)
  /\ faults = MaxFaults /\ serial = TRUE /\ budget = MaxRequests

NextRoute ==
  \/ Tick
  \/ \E p \in Procs :
       \/ \E r \in RouteRequests : PostStart(p, r)
       \/ PostParsed(p)
       \/ PostTimeout(p)
       \/ PostRespond(p)
       \/ GetSession(p)
       \/ CreateSession(p)
       \/ CheckExpiry(p)
       \/ ExpireWrite(p)
       \/ ExtendWrite(p)
       \/ GetUser(p)
       \/ ProcessLevel(p)
       \/ AlertAdd(p)
       \/ AlertNotify(p)
       \/ StatusWrite(p)
       \/ RegisterAdd(p)
       \/ FinalUpdate(p)
       \/ FinalWrite(p)

(* The registration of an unregistered caller: requests one at a time, the
   store may fail; a run starts with the session at its first or at its
   last step and has MaxRequests requests and MaxFaults failures. *)
InitRegister ==
  /\ InitProcs
  /\ (NamingStore \/ RegisteringStore)
  /\ faults = MaxFaults /\ serial = TRUE /\ budget = MaxRequests

NextRegister ==
  \/ Tick
  \/ \E p \in Procs :
       \/ \E sessionId \in SessionIds, input \in Inputs, provider \in Providers :
            Invoke(p, sessionId, input, provider)
       \/ GetSession(p)
       \/ CreateSession(p)
       \/ CheckExpiry(p)
       \/ ExpireWrite(p)
       \/ ExtendWrite(p)
       \/ GetUser(p)
       \/ ProcessLevel(p)
       \/ RegisterAdd(p)
       \/ FinalUpdate(p)
       \/ FinalWrite(p)

Spec == Init /\ [][Next]_vars
SpecRegister == InitRegister /\ [][NextRegister]_vars

----------------------------------------------------------------------------
(* The exported functions, called on their own *)

(* String.prototype.substring(0, n): a negative n counts as 0, an n beyond
   the end as the length. *)
Substring(s, n) == SubSeq(s, 1, IF n < 0 THEN 0 ELSE IF n > Len(s) THEN Len(s) ELSE n)

(* String.prototype.lastIndexOf(c): the index from 0, -1 when c is not in s. *)
LastIndexOf(s, c) ==
  LET at == {i \in 1..Len(s) : s[i] = c}
  IN  IF at = {} THEN 0 - 1 ELSE (CHOOSE i \in at : \A j \in at : j <= i) - 1

Ellipsis == <<".", ".", ".">>

(* truncateResponse; lastSpace > maxLength * 0.8 on integers. *)
truncateResponse(text, maxLength) ==
  IF Len(text) <= maxLength THEN text
  ELSE LET truncated == Substring(text, maxLength - 3)
           lastSpace == LastIndexOf(truncated, " ")
       IN  IF 10 * lastSpace > 8 * maxLength
             THEN Substring(truncated, lastSpace) \o Ellipsis
             ELSE truncated \o Ellipsis

(* A call of fn with args that has not returned yet. *)
Calling(fn, args) == [NoCall EXCEPT !.fn = fn, !.args = args]

(* The texts tried: n letters, and n letters, a space and m letters. *)
Word(n) == [i \in 1..n |-> "a"]
TwoWords(n, m) == Word(n) \o <<" ">> \o Word(m)

Texts ==
  {Word(n) : n \in 0..MaxWord} \cup {TwoWords(n, m) : n \in 0..MaxWord, m \in 0..MaxTail}

(* The maximum lengths tried: the small ones, the ones around the shortest
   for which a cut at a space can happen, and the default of
   MAX_RESPONSE_LENGTH scaled down. *)
MaxLengths == 0..5 \cup {10, 20, 21, 22, MaxWord}

(* The raw phone numbers tried: the four shapes of one subscriber number,
   the same with separators, and every string of up to MaxPhoneLen characters
   of a small alphabet. *)
Shapes ==
  { <<"+", "2", "5", "4", "7", "1", "2", "3", "4", "5", "6", "7", "8">>,
    <<"2", "5", "4", "7", "1", "2", "3", "4", "5", "6", "7", "8">>,
    <<"0", "7", "1", "2", "3", "4", "5", "6", "7", "8">>,
    <<"7", "1", "2", "3", "4", "5", "6", "7", "8">> }

PhoneAlphabet == {"+", "0", "2", "5", "4", "7", " ", "-"}

ShortPhones ==
  UNION {[1..n -> PhoneAlphabet] : n \in 0..MaxPhoneLen}

RawPhones ==
  Shapes \cup ShortPhones
  \cup { <<"0", "7", "1", "2", " ", "3", "4", "5", " ", "6", "7", "8">>,
         <<"+", "2", "5", "4", "-", "7", "1", "2", "-", "3", "4", "5", "-", "6", "7", "8">>,
         <<"0", "7", "1", "2", "3", "4", "5", "6", "7", "8", "9">>,
         <<"7", "1", "2", "+", "3", "4", "5", "6", "7", "8">> }

FunctionCalls ==
  {Calling("truncateResponse", <<text, maxLength>>) : text \in Texts, maxLength \in MaxLengths}
  \cup {Calling("formatPhoneNumber", <<x>>) : x \in RawPhones}

(* truncateResponse(text, maxLength) returns. *)
ApplyTruncate ==
  /\ call.fn = "truncateResponse" /\ ~call.returned
  /\ call' = [call EXCEPT !.returned = TRUE,
                          !.result = truncateResponse(call.args[1], call.args[2])]
  /\ UNCHANGED <<now, sessions, users, alerts, nextId, pc, req, ses, usr, res, upd, out,
                 faults, serial, budget, http, alertId, dist>>

(* formatPhoneNumber(x) returns. *)
ApplyFormat ==
  /\ call.fn = "formatPhoneNumber" /\ ~call.returned
  /\ call' = [call EXCEPT !.returned = TRUE, !.result = formatPhoneNumber(call.args[1])]
  /\ UNCHANGED <<now, sessions, users, alerts, nextId, pc, req, ses, usr, res, upd, out,
                 faults, serial, budget, http, alertId, dist>>

(* formatPhoneNumber is called on what it returned. *)
ApplyFormatAgain ==
  /\ call.fn = "formatPhoneNumber" /\ call.returned /\ call.again = <<>>
  /\ call' = [call EXCEPT !.again = <<formatPhoneNumber(call.result)>>]
  /\ UNCHANGED <<now, sessions, users, alerts, nextId, pc, req, ses, usr, res, upd, out,
                 faults, serial, budget, http, alertId, dist>>

InitFunctions ==
  /\ now = 0
  /\ pc = [p \in Procs |-> "idle"]
  /\ req = [p \in Procs |-> NoRequest]
  /\ ses = [p \in Procs |-> Null]
  /\ usr = [p \in Procs |-> Null]
  /\ res = [p \in Procs |-> NoResult]
  /\ upd = [p \in Procs |-> NoUpdate]
  /\ out = [p \in Procs |-> NoOut]
  /\ http = [p \in Procs |-> NoPost]
  /\ alertId = [p \in Procs |-> 0]
  /\ EmptyStore
  /\ faults = 0 /\ serial = TRUE /\ budget = Unbounded
  /\ call \in FunctionCalls
  /\ dist = NoDistribution

NextFunctions == ApplyTruncate \/ ApplyFormat \/ ApplyFormatAgain

SpecFunctions == InitFunctions /\ [][NextFunctions]_vars
SpecConcurrent == InitConcurrent /\ [][Next]_vars
SpecRoute == InitRoute /\ [][NextRoute]_vars

(* The sessions of a caller part-way through the menu at time 0, as the menu
   computes them: a registered caller asked for the category (level 3), the
   drug (level 4) and the quantity (level 5), and an unregistered caller
   asked for the facility name (level 11). *)
SelectingData == Level2(<<"1">>, WebUser, EmptyData, "safaricom").sessionData
ChoosingData == Level3(<<"1">>, WebUser, SelectingData, "safaricom").sessionData
CountingData == Level4(<<"1">>, WebUser, ChoosingData, "safaricom").sessionData
FacilityData == Level10(<<"a", "b">>, Null, NamingData, "safaricom").sessionData

MidSession(id, sessionId, level, data) ==
  [NewSession(id, sessionId, 0) EXCEPT !.currentLevel = level, !.sessionData = data]

ReportingStore ==
  /\ \E s \in {<<3, SelectingData>>, <<4, ChoosingData>>, <<5, CountingData>>} :
       sessions = <<MidSession(2, ATUid_1, s[1], s[2])>>
  /\ alerts = <<>>
  /\ users = <<WebUser>>
  /\ nextId = 2

FacilityStore ==
  /\ sessions = <<MidSession(1, ATUid_1, 11, FacilityData)>>
  /\ alerts = <<>>
  /\ users = <<>>
  /\ nextId = 1

(* Two requests for one session identifier interleave at any step of the
   menu; the store and the gateways answer. *)
InitInterleaved ==
  /\ InitProcs
  /\ \/ EmptyStore
     \/ ReportingStore
     \/ ReadyStore
     \/ NamingStore
     \/ FacilityStore
     \/ RegisteringStore
  /\ faults = 0 /\ serial = FALSE /\ budget = MaxRequests

SpecInterleaved == InitInterleaved /\ [][Next]_vars

(* Requests come one at a time to a session at any step of the menu; the
   store and the gateways answer; a run has MaxRequests requests. *)
InitSteps ==
  /\ InitProcs
  /\ \/ EmptyStore
     \/ ReportingStore
     \/ ReadyStore
     \/ NamingStore
     \/ FacilityStore
     \/ RegisteringStore
  /\ faults = 0 /\ serial = TRUE /\ budget = MaxRequests

SpecSteps == InitSteps /\ [][Next]_vars

----------------------------------------------------------------------------
(* Properties *)

Terminal == {"expired", "completed", "cancelled"}

(* The session document a query for the identifier returns first. *)
HasStored(sessionId) == queryDocuments(sessions, "sessionId", sessionId) # <<>>
Stored(sessionId) == queryDocuments(sessions, "sessionId", sessionId)[1]

(* The document with the same identifier after a step. *)
SameDoc(d, e) == d.id = e.id

(* The level and the session data of every session document. *)
LevelsAndData ==
  [i \in 1..Len(sessions) |->
     <<sessions[i].id, sessions[i].currentLevel, sessions[i].sessionData>>]

(* C1: a session document whose status is expired, completed or cancelled
   never has its status set back to active, whatever requests, failures and
   interleavings follow. *)
C1_TerminalNeverActive ==
  [][\A i \in 1..Len(sessions) : \A j \in 1..Len(sessions') :
       (SameDoc(sessions[i], sessions'[j]) /\ sessions[i].status \in Terminal)
         => sessions'[j].status # "active"]_vars

(* A submission has marked its session completed and has then written the
   update of the request to the completed session. *)
C1_Witness ==
  \E p \in Procs :
    /\ pc[p] = "done"
    /\ out[p].response.text = Level6(<<"1">>, Null, EmptyData, "safaricom").response.text
    /\ HasStored(req[p].sessionId)
    /\ Stored(req[p].sessionId).status = "completed"

(* C2: at most one alert is created per session, also when the level 6
   request is repeated or two of them interleave. *)
C2_OneAlertPerSession ==
  \A sessionId \in SessionIds :
    Cardinality({i \in 1..Len(alerts) : alerts[i].bySession = sessionId}) <= 1

(* C3: when the expiry check of a request finds that expiresAt is in the
   past, the request marks the session expired and returns the terminal
   'Session expired' response without running the menu: the level and the
   session data of every session stay as they are and no alert and no user
   is created. *)
C3_ExpiredShortCircuits ==
  [][\A p \in Procs :
       /\ (pc[p] = "check" /\ pc'[p] # "check" /\ now > ses[p].expiresAt)
            => /\ pc'[p] = "expire"
               /\ sessions' = sessions
               /\ alerts' = alerts
               /\ users' = users
       /\ (pc[p] = "expire" /\ pc'[p] # "expire")
            => /\ pc'[p] = "done"
               /\ out'[p].response.text = "Session expired. Please dial {serviceCode} again."
               /\ out'[p].endSession
               /\ Stored(req[p].sessionId)'.status = "expired"
               /\ LevelsAndData' = LevelsAndData
               /\ alerts' = alerts
               /\ users' = users]_vars

(* A request for a session that had started the reporting flow was answered
   with 'Session expired' and the session is marked expired. *)
C3_Witness ==
  \E p \in Procs :
    /\ pc[p] = "done"
    /\ out[p] = SessionExpired
    /\ now > ses[p].expiresAt
    /\ Stored(req[p].sessionId).status = "expired"
    /\ Stored(req[p].sessionId).currentLevel = 3

(* C4: every session has expiresAt >= lastActivityAt. *)
C4_ExpiresAfterLastActivity ==
  \A i \in 1..Len(sessions) : sessions[i].expiresAt >= sessions[i].lastActivityAt

(* C5: every session has expiresAt = lastActivityAt + the session timeout. *)
C5_ExpiryFollowsActivity ==
  \A i \in 1..Len(sessions) :
    sessions[i].expiresAt = sessions[i].lastActivityAt + timeoutMs

(* C6: the expiresAt of a session document never decreases. *)
C6_ExpiryNeverDecreases ==
  [][\A i \in 1..Len(sessions) : \A j \in 1..Len(sessions') :
       SameDoc(sessions[i], sessions'[j])
         => sessions'[j].expiresAt >= sessions[i].expiresAt]_vars

(* A request has extended its session: the stored expiry time is later than
   the one the request read. *)
C6_Witness ==
  \E p \in Procs :
    /\ pc[p] \in {"user", "level", "final", "write"}
    /\ Stored(req[p].sessionId).expiresAt > ses[p].expiresAt

(* C7: there is at most one session document per session identifier. *)
C7_OneSessionPerIdentifier ==
  \A sessionId \in SessionIds :
    Len(queryDocuments(sessions, "sessionId", sessionId)) <= 1

(* C8: when the expiry check of a request finds 30 s or less left and the
   session not yet expired, the request is not ended: it writes an expiry of
   the time of the check plus the session timeout, leaving level and session
   data alone, and only then looks up the user and runs the menu. *)
C8_GraceExtension ==
  [][\A p \in Procs :
       /\ (/\ pc[p] = "check" /\ pc'[p] # "check"
           /\ ses[p].expiresAt - now >= 0
           /\ ses[p].expiresAt - now <= 30 * 1000)
            => /\ pc'[p] = "extend"
               /\ upd'[p].fields["expiresAt"] = now + SESSION_TIMEOUT_MINUTES * 60 * 1000
       /\ (pc[p] = "extend" /\ pc'[p] # "extend")
            => /\ pc'[p] = "user"
               /\ Stored(req[p].sessionId)'.expiresAt = upd[p].fields["expiresAt"]
               /\ Stored(req[p].sessionId)'.status = Stored(req[p].sessionId).status
               /\ LevelsAndData' = LevelsAndData
       /\ pc'[p] = "level" => pc[p] \in {"level", "user"}]_vars

(* A session with exactly 30 s left was extended and the menu is about to
   run on it. *)
C8_Witness ==
  \E p \in Procs :
    /\ pc[p] = "level"
    /\ Stored(req[p].sessionId).expiresAt = ses[p].expiresAt - 30 * 1000 + timeoutMs

(* The calls of the session handling proper: the session lookup, creation and
   updates and the user lookup. *)
SessionCalls == {"get", "create", "expire", "extend", "user", "write"}

(* C10: when one of its store calls fails, handleUssdSession returns the
   generic 'Service temporarily unavailable' response with endSession. *)
C10_FailureGivesGenericResponse ==
  [][\A p \in Procs :
       (pc[p] \in SessionCalls /\ pc'[p] # pc[p] /\ faults' < faults)
         => /\ pc'[p] = "done"
            /\ out'[p] = ServiceUnavailable]_vars

(* C9: a form-encoded POST that is answered later than REQUEST_TIMEOUT_MS
   after it arrived is answered with 'END Request timeout. Please try
   again.'. *)
C9_LateAnswerIsTimeout ==
  \A p \in Procs :
    (/\ http[p].phase = "responded"
     /\ ~http[p].request.json
     /\ http[p].processingTime > REQUEST_TIMEOUT_MS)
      => /\ http[p].body.prefix = "END"
         /\ http[p].body.response.text = "Request timeout. Please try again."

----------------------------------------------------------------------------
(* A parameter that is missing or has only white space. *)
Blank(s) == \A i \in 1..Len(s) : s[i] = " "

(* The characters a session identifier may have. *)
SessionIdChars == Letters \cup {"0", "1", "2", "3", "4", "5", "6", "7", "8", "9", "_", "-"}

(* A request whose sessionId, serviceCode or phoneNumber is missing or blank,
   or whose sessionId has a character outside letters, digits, '_' and '-'. *)
Malformed(r) ==
  \/ Blank(r.sessionId) \/ Blank(r.serviceCode) \/ Blank(r.phoneNumber)
  \/ \E i \in 1..Len(r.sessionId) : r.sessionId[i] \notin SessionIdChars

(* C11: a form-encoded request whose sessionId, serviceCode or phoneNumber is
   missing or blank, or whose sessionId does not match [A-Za-z0-9_-]+, is
   answered with a terminal response beginning 'END'; the store is left as it
   was and the state machine is not invoked for it. *)
C11_MalformedRequestRefused ==
  [][\A p \in Procs :
       (/\ http[p].phase = "parsing"
        /\ ~http[p].request.json
        /\ Malformed(http[p].request)
        /\ http'[p] # http[p])
         => /\ http'[p].phase = "responded"
            /\ http'[p].body.prefix = "END"
            /\ http'[p].body.endSession
            /\ UNCHANGED <<sessions, users, alerts, nextId, pc, req, ses, usr, res, out>>]_vars

(* A form-encoded request without service code has been refused before the
   timer ran out. *)
C11_Witness ==
  \E p \in Procs :
    /\ http[p].phase = "responded"
    /\ ~http[p].request.json
    /\ http[p].request.serviceCode = <<>>
    /\ http[p].body.prefix = "END"
    /\ http[p].body.response.text =
         "Missing required parameters: sessionId, serviceCode, phoneNumber"

(* C12: whatever the outcome of a form-encoded POST (a transition of the
   menu, a refused request, the timer, a failure inside the handler), its
   answer has status 200 and begins with 'CON' exactly when it carries a
   result of the handler that does not end the session, and with 'END'
   otherwise. *)
C12_PrefixFollowsEndSession ==
  [][\A p \in Procs :
       (/\ ~http[p].request.json
        /\ http[p].phase # "responded"
        /\ http'[p].phase = "responded")
         => /\ http'[p].body.status = 200
            /\ IF http[p].phase = "handling" /\ ~out[p].endSession
                 THEN /\ http'[p].body.prefix = "CON"
                      /\ http'[p].body.response = out[p].response
                 ELSE http'[p].body.prefix = "END"]_vars

(* A form-encoded request has been answered with a menu that continues the
   session. *)
C12_Witness ==
  \E p \in Procs :
    /\ http[p].phase = "responded"
    /\ ~http[p].request.json
    /\ pc[p] = "done" /\ ~out[p].endSession
    /\ http[p].body.prefix = "CON"

(* The message of level 6 after processUssdAlert returned true. *)
AlertSubmitted == Level6(<<"1">>, Null, EmptyData, "safaricom").response.text

(* Request slot p has finished a request whose valid urgency selection at
   level 6 ran processUssdAlert. *)
Submitted(p) ==
  /\ pc[p] = "done"
  /\ ses[p] # Null /\ ses[p].currentLevel = 6
  /\ InRange(IndexOf(req[p].input), Len(urgencyLevels))
  /\ out[p].response.text \in {AlertSubmitted, SubmitFailed.response.text}

(* C13: after a valid urgency selection at level 6 the session ends, and the
   caller is told that the alert was submitted exactly when the alert of
   this submission is in the store. *)
C13_SuccessIffAlertStored ==
  \A p \in Procs :
    Submitted(p)
      => /\ out[p].endSession
         /\ out[p].response.text = AlertSubmitted
              <=> \E i \in 1..Len(alerts) : alertId[p] # 0 /\ alerts[i].id = alertId[p]

(* The urgency levels in the order the menu of level 5 displays them, as
   stored and as the success message spells them. *)
DisplayOrder == << "low", "medium", "high", "critical" >>
DisplayedUpper == << "LOW", "MEDIUM", "HIGH", "CRITICAL" >>

(* Request slot p has just added the alert of its submission. *)
AlertAdded(p) == pc[p] = "alert" /\ pc'[p] = "notify"

(* Request slot p has just returned the success message of level 6. *)
SuccessReturned(p) ==
  /\ pc[p] # "done" /\ Submitted(p)'
  /\ out'[p].response.text = AlertSubmitted

(* C14: at level 6 the input k in 1..4 selects the k-th of low, medium,
   high, critical: the alert created carries it, and on success the terminal
   response names the stored drug, the stored quantity and the selected
   urgency in upper case and ends the session.  With Paracetamol and 10
   stored, the input 3 selects high. *)
C14_UrgencyByPosition ==
  [][\A p \in Procs :
       LET k == ParseInt(req[p].input).val
       IN  /\ AlertAdded(p)
                => /\ k \in 1..4
                   /\ alerts'[Len(alerts')].urgencyLevel = DisplayOrder[k]
           /\ SuccessReturned(p)
                => /\ out'[p].endSession
                   /\ out'[p].response.args =
                        << ses[p].sessionData["selectedDrug"].name,
                           Num(ses[p].sessionData["quantity"]),
                           DisplayedUpper[k] >>]_vars

(* The success message for Paracetamol, quantity 10 and the input 3. *)
C14_Witness ==
  \E p \in Procs :
    /\ Submitted(p)
    /\ ParseInt(req[p].input) = Num(3)
    /\ out[p].endSession
    /\ out[p].response.text = AlertSubmitted
    /\ out[p].response.args = << "Paracetamol", Num(10), "HIGH" >>
    /\ \E i \in 1..Len(alerts) : alerts[i].id = alertId[p] /\ alerts[i].urgencyLevel = "high"

(* C14 as stated: with Paracetamol and 10 stored, the input 3 selects
   critical. *)
C14_ThreeSelectsCritical ==
  [][\A p \in Procs :
       (/\ AlertAdded(p)
        /\ ParseInt(req[p].input) = Num(3)
        /\ ses[p].sessionData["selectedDrug"].name = "Paracetamol"
        /\ ses[p].sessionData["quantity"] = 10)
         => alerts'[Len(alerts')].urgencyLevel = "critical"]_vars

(* C15: the alert a reporting session creates carries what the session has
   accumulated: the uid and the facility name of the registered caller, the
   id and the name of the stored drug, the stored quantity as
   requestedQuantity, the urgency selected at level 6 as urgencyLevel and as
   overallUrgency, and the status pending. *)
C15_AlertCarriesSelections ==
  [][\A p \in Procs :
       AlertAdded(p)
         => LET a == alerts'[Len(alerts')]
                d == Stored(req[p].sessionId).sessionData
                k == ParseInt(req[p].input).val
            IN  /\ alerts' = Append(alerts, a)
                /\ a.hospitalId = usr[p].uid
                /\ usr[p].facilityName # <<>> => a.hospitalName = usr[p].facilityName
                /\ a.drugId = d["selectedDrug"].id
                /\ a.drugName = d["selectedDrug"].name
                /\ a.requestedQuantity = Num(d["quantity"])
                /\ a.urgencyLevel = DisplayOrder[k]
                /\ a.overallUrgency = DisplayOrder[k]
                /\ a.status = "pending"]_vars

(* An alert for 2 units of Paracetamol at medium urgency, reported by the
   hospital registered through the web application. *)
C15_Witness ==
  \E i \in 1..Len(alerts) :
    /\ alerts[i].hospitalId = WebUser.uid
    /\ alerts[i].hospitalName = WebUser.facilityName
    /\ alerts[i].drugName = "Paracetamol"
    /\ alerts[i].requestedQuantity = Num(2)
    /\ alerts[i].overallUrgency = "medium"
    /\ alerts[i].status = "pending"

(* The menu of level L has just run for request slot p. *)
LevelRan(p, L) ==
  /\ pc[p] = "level" /\ pc'[p] # "level"
  /\ ses[p].currentLevel = L

(* The response has one of the given lines in its menu. *)
HasOption(response, lines) == \E i \in 1..Len(response.args) : response.args[i] \in lines

(* The first lines of the welcome message. *)
WelcomeHeaders ==
  {"Hi {name}!", "Welcome {name} to StockAlert", "StockAlert", "Welcome to StockAlert"}

(* C16: at level 1, whatever the input, the machine returns the welcome
   text, does not end the session and advances to level 2; the text of an
   unregistered caller has a 'Register' option, the text of a registered
   caller a 'Check My Alerts' option or, for the provider with short
   messages, a 'My Alerts' option. *)
C16_WelcomeAdvances ==
  [][\A p \in Procs :
       LevelRan(p, 1)
         => /\ pc'[p] = "final"
            /\ res'[p].response.text \in WelcomeHeaders
            /\ ~res'[p].endSession
            /\ res'[p].nextLevel = 2
            /\ usr[p] = Null => HasOption(res'[p].response, {"2. Register"})
            /\ usr[p] # Null =>
                 /\ ~HasOption(res'[p].response, {"2. Register"})
                 /\ IF req[p].provider = "airtel"
                      THEN HasOption(res'[p].response, {"2. My Alerts"})
                      ELSE HasOption(res'[p].response, {"2. Check My Alerts"})]_vars

(* A registered and an unregistered caller's welcome: the long menu of a
   registered caller has been returned for a non-empty input. *)
C16_Witness ==
  \E p \in Procs :
    /\ pc[p] = "final"
    /\ ses[p].currentLevel = 1 /\ usr[p] # Null /\ req[p].input # <<>>
    /\ res[p].nextLevel = 2
    /\ HasOption(res[p].response, {"2. Check My Alerts"})

(* C16 as stated: the welcome of every registered caller contains 'Check My
   Alerts'. *)
C16_RegisteredSeesCheckMyAlerts ==
  [][\A p \in Procs :
       LevelRan(p, 1)
         => /\ ~res'[p].endSession
            /\ res'[p].nextLevel = 2
            /\ usr[p] = Null => HasOption(res'[p].response, {"2. Register"})
            /\ usr[p] # Null => HasOption(res'[p].response, {"2. Check My Alerts"})]_vars

(* The categories of the drug list, in the order of their first drug. *)
CategoryList == << "Analgesics", "Antibiotics", "Diabetes", "Hypertension", "Gastric" >>

(* The session data new is the session data old with the given keys set. *)
Extends(new, old, keys) ==
  /\ DOMAIN new = DOMAIN old \cup keys
  /\ \A k \in DOMAIN old \ keys : new[k] = old[k]

(* The final update of request slot p has just been written. *)
Persisted(p) == pc[p] = "write" /\ pc'[p] = "done" /\ faults' = faults

(* C17: at level 2 the input 1 takes a registered caller to level 3 with the
   category list in the response and in the session data, and an
   unregistered caller to level 10 with action = register in the session
   data; the session continues and the other session data stay as they were,
   in the result and in the stored session. *)
C17_ReportOrRegister ==
  [][\A p \in Procs :
       LET d == ses[p].sessionData
       IN  /\ (LevelRan(p, 2) /\ Trim(req[p].input) = <<"1">>)
                => /\ pc'[p] = "final"
                   /\ ~res'[p].endSession
                   /\ IF usr[p] # Null
                        THEN /\ res'[p].nextLevel = 3
                             /\ res'[p].response.args = CategoryList
                             /\ Extends(res'[p].sessionData, d, {"action", "categories"})
                             /\ res'[p].sessionData["action"] = "report"
                             /\ res'[p].sessionData["categories"] = CategoryList
                        ELSE /\ res'[p].nextLevel = 10
                             /\ Extends(res'[p].sessionData, d, {"action"})
                             /\ res'[p].sessionData["action"] = "register"
           /\ (Persisted(p) /\ ses[p].currentLevel = 2 /\ Trim(req[p].input) = <<"1">>)
                => /\ ~out'[p].endSession
                   /\ Stored(req[p].sessionId)'.currentLevel = IF usr[p] # Null THEN 3 ELSE 10
                   /\ Stored(req[p].sessionId)'.sessionData = res[p].sessionData]_vars

(* A registered caller has chosen 1 at level 2 and the session is stored at
   level 3 with the categories. *)
C17_Witness ==
  \E p \in Procs :
    /\ pc[p] = "done"
    /\ ses[p] # Null /\ ses[p].currentLevel = 2
    /\ req[p].input = <<"1">> /\ usr[p] # Null
    /\ ~out[p].endSession
    /\ out[p].response.args = CategoryList
    /\ Stored(req[p].sessionId).currentLevel = 3
    /\ Stored(req[p].sessionId).sessionData["categories"] = CategoryList

(* The options of the main menu. *)
MainMenuOptions == { <<"1">>, <<"2">>, <<"3">>, <<"0">> }

(* The texts of the re-prompt of level 2. *)
InvalidOptionTexts ==
  { "Invalid. Try again: 1. Report 2. Alerts 3. Help 0. Exit",
    "Invalid option. Please try again. 1. Report Low Stock 2. Check Alerts 3. Help 0. Exit" }

(* C18: at level 2 an input other than 1, 2, 3 and 0 is answered with the
   re-prompt, which does not end the session and stays at level 2; the
   stored session is written back with nothing but its time of last
   activity changed, so the same can happen again. *)
C18_InvalidOptionReprompts ==
  [][\A p \in Procs :
       /\ (LevelRan(p, 2) /\ Trim(req[p].input) \notin MainMenuOptions)
            => /\ pc'[p] = "final"
               /\ res'[p].response.text \in InvalidOptionTexts
               /\ ~res'[p].endSession
               /\ res'[p].nextLevel = 2
               /\ res'[p].sessionData = NoData
       /\ (Persisted(p) /\ ses[p].currentLevel = 2
            /\ Trim(req[p].input) \notin MainMenuOptions)
            => /\ ~out'[p].endSession
               /\ Stored(req[p].sessionId)'.currentLevel = 2
               /\ Stored(req[p].sessionId)'.sessionData = ses[p].sessionData
               /\ \A f \in DOMAIN Stored(req[p].sessionId) \ {"lastActivityAt"} :
                    Stored(req[p].sessionId)'[f] = Stored(req[p].sessionId)[f]]_vars

(* A session that was at level 2 is still there, and active, after the
   input ab. *)
C18_Witness ==
  \E p \in Procs :
    /\ pc[p] = "done"
    /\ ses[p] # Null /\ ses[p].currentLevel = 2
    /\ req[p].input = <<"a", "b">>
    /\ out[p].response.text \in InvalidOptionTexts
    /\ ~out[p].endSession
    /\ Stored(req[p].sessionId).currentLevel = 2
    /\ Stored(req[p].sessionId).status = "active"

(* The prompts for the name of level 2. *)
EnterNameTexts == {"Register first. Enter name:", "Please register first. Enter your name:"}

(* C19: at level 2 an unregistered caller who sends 2, the 'Register' entry
   of the welcome menu, is asked for the name and the session continues at
   the first level of the registration. *)
C19_RegisterOptionStartsRegistration ==
  [][\A p \in Procs :
       (LevelRan(p, 2) /\ Trim(req[p].input) = <<"2">> /\ usr[p] = Null)
         => /\ res'[p].response.text \in EnterNameTexts
            /\ ~res'[p].endSession]_vars

(* An input without any digit. *)
NoDigit(s) == \A i \in 1..Len(s) : ~IsDigit(s[i])

(* An input that is a minus sign and a number other than zero. *)
NegativeNumber(s) ==
  LET t == Trim(s)
  IN  /\ Len(t) >= 2 /\ t[1] = "-"
      /\ \A i \in 2..Len(t) : IsDigit(t[i])
      /\ \E i \in 2..Len(t) : t[i] # "0"

ValidNumberText == "Please enter a valid number (0 or greater):"

(* C20: at level 5 an input without digits or a negative number is answered
   with the request for a valid number, which does not end the session and
   stays at level 5; the stored session keeps its level and its session data
   (category, drug, any quantity) when the request is written back. *)
C20_InvalidQuantityReprompts ==
  [][\A p \in Procs :
       /\ (LevelRan(p, 5) /\ (NoDigit(req[p].input) \/ NegativeNumber(req[p].input)))
            => /\ pc'[p] = "final"
               /\ res'[p].response.text = ValidNumberText
               /\ ~res'[p].endSession
               /\ res'[p].nextLevel = 5
               /\ res'[p].sessionData = NoData
       /\ (Persisted(p) /\ ses[p].currentLevel = 5
            /\ (NoDigit(req[p].input) \/ NegativeNumber(req[p].input)))
            => /\ ~out'[p].endSession
               /\ Stored(req[p].sessionId)'.currentLevel = 5
               /\ Stored(req[p].sessionId)'.sessionData = ses[p].sessionData
               /\ Stored(req[p].sessionId)'.sessionData = Stored(req[p].sessionId).sessionData]_vars

(* A session at level 5 with a drug chosen is still there, with the same
   data, after the input -1. *)
C20_Witness ==
  \E p \in Procs :
    /\ pc[p] = "done"
    /\ ses[p] # Null /\ ses[p].currentLevel = 5
    /\ req[p].input = <<"-", "1">>
    /\ out[p].response.text = ValidNumberText
    /\ ~out[p].endSession
    /\ Stored(req[p].sessionId).currentLevel = 5
    /\ Has(Stored(req[p].sessionId).sessionData, "selectedDrug")
    /\ ~Has(Stored(req[p].sessionId).sessionData, "quantity")

(* An input that is a number written with digits only, between 1 and n. *)
Numbered(input, n) ==
  /\ input # <<>>
  /\ \A i \in 1..Len(input) : IsDigit(input[i])
  /\ ParseInt(input).val \in 1..n

(* The names of a list of drugs. *)
NamesOf(list) == [i \in 1..Len(list) |-> list[i].name]

(* C21: at level 3 a number within the stored category list selects the
   category under that number, stores it with its drugs, lists these drugs
   in the order stored and goes to level 4; at level 4 a number within the
   stored drug list selects the drug under that number, stores it and goes
   to level 5.  The session continues and the stored session takes the new
   level and data. *)
C21_NumberSelectsListed ==
  [][\A p \in Procs :
       LET d == ses[p].sessionData
           k == ParseInt(req[p].input).val
       IN  /\ (LevelRan(p, 3) /\ Has(d, "categories")
               /\ Numbered(req[p].input, Len(d["categories"])))
                => /\ pc'[p] = "final"
                   /\ ~res'[p].endSession
                   /\ res'[p].nextLevel = 4
                   /\ Extends(res'[p].sessionData, d, {"selectedCategory", "categoryDrugs"})
                   /\ res'[p].sessionData["selectedCategory"] = d["categories"][k]
                   /\ \A i \in 1..Len(res'[p].sessionData["categoryDrugs"]) :
                        res'[p].sessionData["categoryDrugs"][i].category = d["categories"][k]
                   /\ res'[p].response.args =
                        <<d["categories"][k]>> \o NamesOf(res'[p].sessionData["categoryDrugs"])
           /\ (LevelRan(p, 4) /\ Has(d, "categoryDrugs")
               /\ Numbered(req[p].input, Len(d["categoryDrugs"])))
                => /\ pc'[p] = "final"
                   /\ ~res'[p].endSession
                   /\ res'[p].nextLevel = 5
                   /\ Extends(res'[p].sessionData, d, {"selectedDrug"})
                   /\ res'[p].sessionData["selectedDrug"] = d["categoryDrugs"][k]
                   /\ res'[p].response.args = <<d["categoryDrugs"][k].name>>
           /\ (Persisted(p) /\ ses[p].currentLevel \in {3, 4}
               /\ res[p].nextLevel = ses[p].currentLevel + 1)
                => /\ Stored(req[p].sessionId)'.currentLevel = ses[p].currentLevel + 1
                   /\ Stored(req[p].sessionId)'.sessionData = res[p].sessionData]_vars

(* The second drug of the first category has been chosen: Ibuprofen of
   Analgesics is stored with level 5. *)
C21_Witness ==
  \E p \in Procs :
    /\ pc[p] = "done"
    /\ ses[p] # Null /\ ses[p].currentLevel = 4
    /\ req[p].input = <<"2">>
    /\ ~out[p].endSession
    /\ Stored(req[p].sessionId).currentLevel = 5
    /\ Stored(req[p].sessionId).sessionData["selectedCategory"] = "Analgesics"
    /\ Stored(req[p].sessionId).sessionData["selectedDrug"].name = "Ibuprofen"

(* C22: the input 0 at level 3 goes to level 2 and at level 4 to level 3,
   where the categories of the session data are listed again; the session
   continues and the stored session data stay as they were. *)
C22_BackKeepsData ==
  [][\A p \in Procs :
       LET d == ses[p].sessionData
       IN  /\ (LevelRan(p, 3) /\ req[p].input = <<"0">>)
                => /\ pc'[p] = "final"
                   /\ ~res'[p].endSession
                   /\ res'[p].nextLevel = 2
                   /\ res'[p].sessionData = NoData
           /\ (LevelRan(p, 4) /\ req[p].input = <<"0">>)
                => /\ pc'[p] = "final"
                   /\ ~res'[p].endSession
                   /\ res'[p].nextLevel = 3
                   /\ res'[p].sessionData = NoData
                   /\ Has(d, "categories") => res'[p].response.args = d["categories"]
           /\ (Persisted(p) /\ ses[p].currentLevel \in {3, 4} /\ req[p].input = <<"0">>)
                => /\ ~out'[p].endSession
                   /\ Stored(req[p].sessionId)'.currentLevel = ses[p].currentLevel - 1
                   /\ Stored(req[p].sessionId)'.sessionData = d
                   /\ Stored(req[p].sessionId)'.sessionData = Stored(req[p].sessionId).sessionData
                   /\ Stored(req[p].sessionId)'.status = "active"]_vars

(* A caller went back from the drug list: the session is at level 3 and
   still has the categories, the chosen category and its drugs. *)
C22_Witness ==
  \E p \in Procs :
    /\ pc[p] = "done"
    /\ ses[p] # Null /\ ses[p].currentLevel = 4
    /\ req[p].input = <<"0">>
    /\ ~out[p].endSession
    /\ out[p].response.args = CategoryList
    /\ Stored(req[p].sessionId).currentLevel = 3
    /\ Has(Stored(req[p].sessionId).sessionData, "categories")
    /\ Has(Stored(req[p].sessionId).sessionData, "selectedCategory")
    /\ Has(Stored(req[p].sessionId).sessionData, "categoryDrugs")

(* The step before each level in its flow: reporting 2, 3, 4, 5, 6 and
   registration 2, 10, 11, 12. *)
PrecedingLevel(level) ==
  CASE level = 3 -> 2 [] level = 4 -> 3 [] level = 5 -> 4 [] level = 6 -> 5
    [] level = 10 -> 2 [] level = 11 -> 10 [] level = 12 -> 11

(* C23: at the levels 3, 4, 5, 6, 10, 11 and 12 the input 0 takes the
   session to the step before, without ending it. *)
C23_ZeroGoesBackOneStep ==
  [][\A p \in Procs :
       (/\ pc[p] = "level" /\ pc'[p] # "level"
        /\ ses[p].currentLevel \in {3, 4, 5, 6, 10, 11, 12}
        /\ req[p].input = <<"0">>)
         => /\ ~res'[p].endSession
            /\ res'[p].nextLevel = PrecedingLevel(ses[p].currentLevel)]_vars

(* The numbers level L accepts with the session data d: the positions of
   the stored list at levels 3 and 4, the quantities from 0 (capped for the
   enumeration) at level 5, the four urgency levels at level 6. *)
AcceptedNumbers(L, d) ==
  CASE L = 3 -> 1..Len(ListOr(d, "categories"))
    [] L = 4 -> 1..Len(ListOr(d, "categoryDrugs"))
    [] L = 5 -> 0..99
    [] L = 6 -> 1..4

(* The input is not a number, or is a number level L does not accept; the
   back step 0 of levels 3 and 4 is not a selection. *)
InvalidSelection(L, input, d) ==
  /\ ~(L \in {3, 4} /\ input = <<"0">>)
  /\ \/ NoDigit(input)
     \/ /\ ~isNaN(ParseInt(input))
        /\ ParseInt(input).val \notin AcceptedNumbers(L, d)

(* C24: at the levels 3, 4, 5 and 6 an input that is not a number or is out
   of range raises no error and does not end the session: the level asks
   again, with the next level the current one and the session data left
   alone, and the stored session stays at its level. *)
C24_InvalidNumberReprompts ==
  [][\A p \in Procs :
       /\ (/\ pc[p] = "level" /\ pc'[p] # "level"
           /\ ses[p].currentLevel \in {3, 4, 5, 6}
           /\ InvalidSelection(ses[p].currentLevel, req[p].input, ses[p].sessionData))
            => /\ pc'[p] = "final"
               /\ ~res'[p].endSession
               /\ res'[p].nextLevel = ses[p].currentLevel
               /\ res'[p].sessionData = NoData
       /\ (/\ Persisted(p)
           /\ ses[p].currentLevel \in {3, 4, 5, 6}
           /\ InvalidSelection(ses[p].currentLevel, req[p].input, ses[p].sessionData))
            => /\ ~out'[p].endSession
               /\ Stored(req[p].sessionId)'.currentLevel = ses[p].currentLevel
               /\ Stored(req[p].sessionId)'.sessionData = ses[p].sessionData
               /\ Stored(req[p].sessionId)'.status = Stored(req[p].sessionId).status]_vars

(* A session at level 6 is still there after an input that is not an
   urgency level. *)
C24_Witness ==
  \E p \in Procs :
    /\ pc[p] = "done"
    /\ ses[p] # Null /\ ses[p].currentLevel = 6
    /\ req[p].input = <<"a", "b">>
    /\ ~out[p].endSession
    /\ out[p].nextLevel = 6
    /\ Stored(req[p].sessionId).currentLevel = 6
    /\ Stored(req[p].sessionId).status = "active"

(* The key of the session data each level of the registration fills. *)
RegistrationKey(level) == CASE level = 10 -> "name" [] level = 11 -> "facilityName"

(* The sequence with its i-th element taken out. *)
Without(s, i) == SubSeq(s, 1, i - 1) \o SubSeq(s, i + 1, Len(s))

RegistrationTexts ==
  { "Registration successful! Welcome {name}!", "Registration failed. Please try again later." }

(* C25: the levels 10, 11 and 12 ask again, at the same level and without
   ending the session, when the trimmed input has fewer than 2 characters;
   a longer name takes level 10 to 11 and a longer facility name 11 to 12,
   each stored in the session data; a longer location at level 12 adds the
   caller record with the stored name and facility name and the location and
   ends the session with the success message, or, when the record cannot be
   added, ends it with the failure message and adds nothing. *)
C25_RegistrationFlow ==
  [][\A p \in Procs :
       LET L == ses[p].currentLevel
           d == ses[p].sessionData
           t == Trim(req[p].input)
       IN  /\ (pc[p] = "level" /\ pc'[p] # "level" /\ L \in {10, 11, 12} /\ Len(t) < 2)
                => /\ pc'[p] = "final"
                   /\ ~res'[p].endSession
                   /\ res'[p].nextLevel = L
                   /\ res'[p].sessionData = NoData
           /\ (pc[p] = "level" /\ pc'[p] # "level" /\ L \in {10, 11} /\ Len(t) >= 2)
                => /\ pc'[p] = "final"
                   /\ ~res'[p].endSession
                   /\ res'[p].nextLevel = L + 1
                   /\ Extends(res'[p].sessionData, d, {RegistrationKey(L)})
                   /\ res'[p].sessionData[RegistrationKey(L)] = t
           /\ (Persisted(p) /\ L \in {10, 11})
                => /\ ~out'[p].endSession
                   /\ Stored(req[p].sessionId)'.currentLevel = res[p].nextLevel
           /\ (pc[p] = "level" /\ pc'[p] # "level" /\ L = 12 /\ Len(t) >= 2)
                => pc'[p] = "register"
           /\ pc'[p] = "register" => pc[p] = "register" \/ (pc[p] = "level" /\ L = 12)
           /\ (pc[p] = "register" /\ pc'[p] # "register")
                => /\ pc'[p] = "final"
                   /\ res'[p].endSession
                   /\ IF faults' = faults
                        THEN /\ res'[p].response.text = "Registration successful! Welcome {name}!"
                             /\ \E i \in 1..Len(users') :
                                  /\ Without(users', i) = users
                                  /\ users'[i].name = d["name"]
                                  /\ users'[i].facilityName = d["facilityName"]
                                  /\ users'[i].location = t
                                  /\ users'[i].phoneNumber = ses[p].phoneNumber
                                  /\ users'[i].role = "hospital"
                        ELSE /\ res'[p].response.text = "Registration failed. Please try again later."
                             /\ users' = users
           /\ (pc[p] # "done" /\ pc'[p] = "done" /\ out'[p].response.text \in RegistrationTexts)
                => out'[p].endSession]_vars

(* A caller has registered: the request of level 12 ended the session with
   the success message and the caller record is stored. *)
C25_Witness ==
  \E p \in Procs :
    /\ pc[p] = "done"
    /\ ses[p] # Null /\ ses[p].currentLevel = 12
    /\ out[p].endSession
    /\ out[p].response.text = "Registration successful! Welcome {name}!"
    /\ \E i \in 1..Len(users) :
         /\ users[i].name = <<"a", "b">>
         /\ users[i].facilityName = <<"a", "b">>
         /\ users[i].location = Trim(req[p].input)
         /\ users[i].phoneNumber = Phone

(* The menu has run for the finished request of slot p and has returned. *)
MenuReturned(p) == pc[p] = "done" /\ ses[p] # Null /\ res[p] # NoResult

(* The requests of two slots met the same level, input and session data. *)
SameCall(p, q) ==
  /\ ses[p].currentLevel = ses[q].currentLevel
  /\ req[p].input = req[q].input
  /\ ses[p].sessionData = ses[q].sessionData

(* The branch of the menu the request of slot p took waits for the store or
   a gateway before it returns: the alert listing of level 2, the submission
   of level 6, the registration of level 12. *)
AwaitsStore(p) ==
  processUSSDLevel(ses[p].currentLevel, req[p].input, usr[p], ses[p].sessionData,
                   req[p].provider).effect # "none"

(* C26: two invocations of the menu with the same level, input, session
   data, caller record and provider return the same response, next level and
   endSession, unless the branch taken waits for the store (alert listing,
   submission, registration). *)
C26_SameCallSameResult ==
  \A p, q \in Procs :
    (/\ MenuReturned(p) /\ MenuReturned(q)
     /\ SameCall(p, q)
     /\ usr[p] = usr[q]
     /\ req[p].provider = req[q].provider
     /\ ~AwaitsStore(p))
      => out[p] = out[q]

(* Two requests have met the same session at level 12 with a single
   character and got the same answer. *)
C26_Witness ==
  /\ MenuReturned(1) /\ MenuReturned(2)
  /\ SameCall(1, 2)
  /\ ses[1].currentLevel = 12
  /\ ~AwaitsStore(1)
  /\ out[1] = out[2]
  /\ ~out[1].endSession

(* C26 as stated: the same level, input and session data give the same
   result at every level but the submission of level 6. *)
C26_LevelInputDataDecide ==
  \A p, q \in Procs :
    (/\ MenuReturned(p) /\ MenuReturned(q)
     /\ SameCall(p, q)
     /\ ses[p].currentLevel # 6)
      => out[p] = out[q]


----------------------------------------------------------------------------
(* C27: for every text and every maximum length, what truncateResponse
   returns is no longer than the maximum length. *)
C27_TruncatedWithinMax ==
  (call.fn = "truncateResponse" /\ call.returned)
    => Len(call.result) <= call.args[2]

(* C28: truncateResponse never cuts inside a word: it returns the whole
   text, or the part of the text before one of its spaces followed by the
   ellipsis (for a maximum length the ellipsis fits in). *)
C28_CutAtWordBoundary ==
  (call.fn = "truncateResponse" /\ call.returned /\ call.args[2] >= Len(Ellipsis))
    => \/ call.result = call.args[1]
       \/ \E k \in 0..(Len(call.args[1]) - 1) :
            /\ call.args[1][k + 1] = " "
            /\ call.result = Substring(call.args[1], k) \o Ellipsis


(* The subscriber number of the four shapes in international form. *)
Normalized == <<"+", "2", "5", "4", "7", "1", "2", "3", "4", "5", "6", "7", "8">>

(* C29: formatPhoneNumber applied to what it returned returns the same, for
   every raw number; and the four shapes of one subscriber number all become
   the international form. *)
C29_FormatIdempotent ==
  /\ (call.fn = "formatPhoneNumber" /\ call.again # <<>>) => call.again[1] = call.result
  /\ (call.fn = "formatPhoneNumber" /\ call.returned /\ call.args[1] \in Shapes)
       => call.result = Normalized

(* A national number with separators has been rewritten and formatted again. *)
C29_Witness ==
  /\ call.fn = "formatPhoneNumber" /\ call.again # <<>>
  /\ call.args[1] = <<"0", "7", "1", "2", " ", "3", "4", "5", " ", "6", "7", "8">>
  /\ call.result = Normalized


----------------------------------------------------------------------------
(* Supplier filtering: which suppliers an alert is sent to *)

(* An optional field is absent or present with a value. *)
Absent == <<>>
Present(v) == <<v>>

(* A number used as a condition: absent and 0 are false. *)
Truthy(n) == n # Absent /\ n[1] # 0

Range(s) == {s[i] : i \in 1..Len(s)}

Abs(n) == IF n < 0 THEN 0 - n ELSE n

(* String.prototype.toLowerCase on the letters used. *)
toLowerCaseChar(c) ==
  CASE c = "M" -> "m" [] c = "N" -> "n" [] c = "S" -> "s" [] OTHER -> c

toLowerCase(s) == [i \in 1..Len(s) |-> toLowerCaseChar(s[i])]

(* String.prototype.includes *)
Includes(s, t) == \E i \in 0..(Len(s) - Len(t)) : SubSeq(s, i + 1, i + Len(t)) = t

(* The code unit of a character of a time of day. *)
CharCode(c) == IF c = ":" THEN 58 ELSE 48 + DigitVal(c)

(* a <= b on strings: by code units, a prefix before its extensions. *)
RECURSIVE StringLeq(_, _)
StringLeq(a, b) ==
  IF a = <<>> THEN TRUE
  ELSE IF b = <<>> THEN FALSE
  ELSE IF CharCode(Head(a)) < CharCode(Head(b)) THEN TRUE
  ELSE IF CharCode(Head(a)) > CharCode(Head(b)) THEN FALSE
  ELSE StringLeq(Tail(a), Tail(b))

(* String.prototype.split(sep) *)
RECURSIVE Split(_, _)
Split(s, sep) ==
  LET at == {i \in 1..Len(s) : s[i] = sep}
  IN  IF at = {} THEN <<s>>
      ELSE LET i == CHOOSE k \in at : \A j \in at : k <= j
           IN  <<SubSeq(s, 1, i - 1)>> \o Split(SubSeq(s, i + 1, Len(s)), sep)

(* parseFloat on a text without fraction or exponent. *)
parseFloat(s) == ParseInt(s)

(* Earth's radius in kilometers *)
R == 6371

(* R * Math.PI / 180 in whole kilometres, with 355/113 for pi. *)
KmPerDegree == (R * 355) \div (113 * 180)

(* calculateDistance for two points of one meridian, where the haversine
   formula gives the earth's radius times the difference of the latitudes in
   radians. *)
calculateDistance(lat1, lon1, lat2, lon2) == KmPerDegree * Abs(lat2 - lat1)

(* isWithinBusinessHours with a supplier without business hours taken as closed. *)
isWithinBusinessHours_closedWhenUnset(businessHours, clock) ==
  IF businessHours = Absent THEN FALSE
  ELSE IF clock.day \notin Range(businessHours[1].workingDays) THEN FALSE
  ELSE /\ StringLeq(businessHours[1].start, clock.time)
       /\ StringLeq(clock.time, businessHours[1].end)

(* isWithinBusinessHours; clock is the reading of new Date(): the day of the
   week and the time of day as HH:MM. *)
isWithinBusinessHours(businessHours, clock) ==
  IF businessHours = Absent THEN TRUE
  ELSE IF clock.day \notin Range(businessHours[1].workingDays) THEN FALSE
  ELSE /\ StringLeq(businessHours[1].start, clock.time)
       /\ StringLeq(clock.time, businessHours[1].end)

(* parseLocation: "lat,lng" or null. *)
parseLocation(location) ==
  LET coords == Split(location, ",")
  IN  IF /\ Len(coords) = 2
         /\ ~isNaN(parseFloat(Trim(coords[1])))
         /\ ~isNaN(parseFloat(Trim(coords[2])))
        THEN [lat |-> parseFloat(Trim(coords[1])).val, lng |-> parseFloat(Trim(coords[2])).val]
        ELSE Null

RECURSIVE calculateEstimatedOrderValue(_)
calculateEstimatedOrderValue(list) ==
  IF list = <<>> THEN 0
  ELSE Head(list).requestedQuantity * 100 + calculateEstimatedOrderValue(Tail(list))

(* Array.prototype.find when no element matches. *)
NotFound == [undefined |-> TRUE]

(* allPreferences.find(p => p.supplierId === uid) *)
FindPreferences(allPreferences, uid) ==
  LET found == queryDocuments(allPreferences, "supplierId", uid)
  IN  IF found = <<>> THEN NotFound ELSE found[1]

(* alert.location?.address as a condition *)
HasAddress(alert) == alert.location # Absent /\ alert.location[1].address # <<>>

(* isSupplierEligible with the inactive record filtered like an active one. *)
isSupplierEligible_inactiveFiltered(supplier, preferences, alert, clock) ==
  IF preferences = NotFound THEN TRUE
  ELSE IF ~isWithinBusinessHours(preferences.businessHours, clock) THEN FALSE
  ELSE IF /\ Len(preferences.urgencyLevels) > 0
          /\ alert.overallUrgency \notin Range(preferences.urgencyLevels) THEN FALSE
  ELSE IF /\ Len(preferences.drugCategories) > 0
          /\ ~\E i \in 1..Len(alert.drugs) :
                OrElse(alert.drugs[i].category, "general") \in Range(preferences.drugCategories)
         THEN FALSE
  ELSE IF /\ Len(preferences.geographicRegions) > 0
          /\ HasAddress(alert)
          /\ ~\E i \in 1..Len(preferences.geographicRegions) :
                Includes(toLowerCase(alert.location[1].address),
                         toLowerCase(preferences.geographicRegions[i]))
         THEN FALSE
  ELSE IF /\ Truthy(preferences.maxDistance)
          /\ alert.location # Absent
          /\ Truthy(alert.location[1].latitude)
          /\ Truthy(alert.location[1].longitude)
          /\ supplier.location # <<>>
          /\ parseLocation(supplier.location) # Null
          /\ calculateDistance(alert.location[1].latitude[1], alert.location[1].longitude[1],
                               parseLocation(supplier.location).lat,
                               parseLocation(supplier.location).lng)
               > preferences.maxDistance[1]
         THEN FALSE
  ELSE IF /\ Truthy(preferences.minimumOrderValue)
          /\ calculateEstimatedOrderValue(alert.drugs) < preferences.minimumOrderValue[1]
         THEN FALSE
  ELSE TRUE

(* isSupplierEligible with a supplier that accepts the alert's category taken whatever its urgency levels. *)
isSupplierEligible_urgencyLast(supplier, preferences, alert, clock) ==
  IF preferences = NotFound THEN TRUE
  ELSE IF ~preferences.isActive THEN TRUE
  ELSE IF ~isWithinBusinessHours(preferences.businessHours, clock) THEN FALSE
  ELSE IF /\ Len(preferences.urgencyLevels) > 0
          /\ Len(preferences.drugCategories) = 0
          /\ alert.overallUrgency \notin Range(preferences.urgencyLevels) THEN FALSE
  ELSE IF /\ Len(preferences.drugCategories) > 0
          /\ ~\E i \in 1..Len(alert.drugs) :
                OrElse(alert.drugs[i].category, "general") \in Range(preferences.drugCategories)
         THEN FALSE
  ELSE IF /\ Len(preferences.geographicRegions) > 0
          /\ HasAddress(alert)
          /\ ~\E i \in 1..Len(preferences.geographicRegions) :
                Includes(toLowerCase(alert.location[1].address),
                         toLowerCase(preferences.geographicRegions[i]))
         THEN FALSE
  ELSE IF /\ Truthy(preferences.maxDistance)
          /\ alert.location # Absent
          /\ Truthy(alert.location[1].latitude)
          /\ Truthy(alert.location[1].longitude)
          /\ supplier.location # <<>>
          /\ parseLocation(supplier.location) # Null
          /\ calculateDistance(alert.location[1].latitude[1], alert.location[1].longitude[1],
                               parseLocation(supplier.location).lat,
                               parseLocation(supplier.location).lng)
               > preferences.maxDistance[1]
         THEN FALSE
  ELSE IF /\ Truthy(preferences.minimumOrderValue)
          /\ calculateEstimatedOrderValue(alert.drugs) < preferences.minimumOrderValue[1]
         THEN FALSE
  ELSE TRUE

(* isSupplierEligible *)
isSupplierEligible(supplier, preferences, alert, clock) ==
  IF preferences = NotFound THEN TRUE
  ELSE IF ~preferences.isActive THEN TRUE
  ELSE IF ~isWithinBusinessHours(preferences.businessHours, clock) THEN FALSE
  ELSE IF /\ Len(preferences.urgencyLevels) > 0
          /\ alert.overallUrgency \notin Range(preferences.urgencyLevels) THEN FALSE
  ELSE IF /\ Len(preferences.drugCategories) > 0
          /\ ~\E i \in 1..Len(alert.drugs) :
                OrElse(alert.drugs[i].category, "general") \in Range(preferences.drugCategories)
         THEN FALSE
  ELSE IF /\ Len(preferences.geographicRegions) > 0
          /\ HasAddress(alert)
          /\ ~\E i \in 1..Len(preferences.geographicRegions) :
                Includes(toLowerCase(alert.location[1].address),
                         toLowerCase(preferences.geographicRegions[i]))
         THEN FALSE
  ELSE IF /\ Truthy(preferences.maxDistance)
          /\ alert.location # Absent
          /\ Truthy(alert.location[1].latitude)
          /\ Truthy(alert.location[1].longitude)
          /\ supplier.location # <<>>
          /\ parseLocation(supplier.location) # Null
          /\ calculateDistance(alert.location[1].latitude[1], alert.location[1].longitude[1],
                               parseLocation(supplier.location).lat,
                               parseLocation(supplier.location).lng)
               > preferences.maxDistance[1]
         THEN FALSE
  ELSE IF /\ Truthy(preferences.minimumOrderValue)
          /\ calculateEstimatedOrderValue(alert.drugs) < preferences.minimumOrderValue[1]
         THEN FALSE
  ELSE TRUE

(* getEligibleSuppliers: the suppliers of the users collection that pass,
   in the order of the collection; none when a read of the store fails. The
   clock is read once for the call. *)
getEligibleSuppliers(alert, allUsers, allPreferences, clock, readsFail) ==
  IF readsFail THEN <<>>
  ELSE SelectSeq(queryDocuments(allUsers, "role", "supplier"),
                 LAMBDA supplier :
                   isSupplierEligible(supplier, FindPreferences(allPreferences, supplier.uid),
                                      alert, clock))

(* The inputs tried *)

Supplier(uid, location) ==
  [uid |-> uid, role |-> "supplier", location |-> location,
   phoneNumber |-> "+254700000001", email |-> "supplier@example.com"]

Hospital(uid) ==
  [uid |-> uid, role |-> "hospital", location |-> <<>>,
   phoneNumber |-> "+254700000002", email |-> "hospital@example.com"]

(* Where the first supplier is: nowhere, two degrees north of the alert on
   its meridian, or in a town given by name. *)
SupplierLocations ==
  {<<>>, <<"3", ",", " ", "3", "7">>, <<"N", "b", "i">>}

UserCollections ==
  {<<Hospital("h1"), Supplier("s1", location), Supplier("s2", <<>>)>> :
     location \in SupplierLocations}

OfficeHours ==
  [start |-> <<"0", "8", ":", "0", "0">>, end |-> <<"1", "8", ":", "0", "0">>,
   workingDays |-> <<1, 2, 3, 4, 5>>]

PreferenceRecords(uid) ==
  [supplierId : {uid},
   isActive : BOOLEAN,
   businessHours : {Absent, Present(OfficeHours)},
   urgencyLevels : {<<>>, <<"critical">>},
   drugCategories : {<<>>, <<"antibiotics">>},
   geographicRegions : {<<>>, <<<<"m", "s", "a">>>>},
   maxDistance : {Absent, Present(0), Present(100)},
   minimumOrderValue : {Absent, Present(0), Present(1000)},
   notificationMethods : {<<"sms">>}]

(* A record that is not active and accepts next to nothing. *)
Dormant(uid) ==
  [supplierId |-> uid, isActive |-> FALSE, businessHours |-> Present(OfficeHours),
   urgencyLevels |-> <<"critical">>, drugCategories |-> <<"antibiotics">>,
   geographicRegions |-> <<<<"m", "s", "a">>>>, maxDistance |-> Present(100),
   minimumOrderValue |-> Present(1000), notificationMethods |-> <<"sms">>]

(* The preferences collection: empty, one record of the first supplier, or
   that and a dormant record of the second. *)
PreferenceCollections ==
  {<<>>}
  \cup {<<p>> : p \in PreferenceRecords("s1")}
  \cup {<<p, Dormant("s2")>> : p \in PreferenceRecords("s1")}

AlertLocations ==
  {Absent,
   Present([address |-> <<"N", "b", "i">>, latitude |-> Present(1), longitude |-> Present(37)]),
   Present([address |-> <<"M", "s", "a">>, latitude |-> Present(0), longitude |-> Present(37)])}

AlertDrugs ==
  {<<[category |-> "antibiotics", requestedQuantity |-> 5]>>,
   <<[category |-> "", requestedQuantity |-> 20]>>}

StockAlerts ==
  [id : {"alert1"}, overallUrgency : {"medium", "critical"}, drugs : AlertDrugs,
   location : AlertLocations]

(* Monday morning, Monday evening, Sunday morning. *)
Clocks ==
  {[day |-> 1, time |-> <<"0", "9", ":", "0", "0">>],
   [day |-> 1, time |-> <<"1", "9", ":", "0", "0">>],
   [day |-> 0, time |-> <<"0", "9", ":", "0", "0">>]}

EligibilityCall(alert, allUsers, allPreferences, clock, readsFail) ==
  Calling("getEligibleSuppliers", <<alert, allUsers, allPreferences, clock, readsFail>>)

(* getEligibleSuppliers(alert) returns. *)
ApplyEligible ==
  /\ call.fn = "getEligibleSuppliers" /\ ~call.returned
  /\ call' = [call EXCEPT !.returned = TRUE,
                          !.result = getEligibleSuppliers(call.args[1], call.args[2],
                                                          call.args[3], call.args[4],
                                                          call.args[5])]
  /\ UNCHANGED <<now, sessions, users, alerts, nextId, pc, req, ses, usr, res, upd, out,
                 faults, serial, budget, http, alertId, dist>>

InitSuppliers ==
  /\ now = 0
  /\ pc = [p \in Procs |-> "idle"]
  /\ req = [p \in Procs |-> NoRequest]
  /\ ses = [p \in Procs |-> Null]
  /\ usr = [p \in Procs |-> Null]
  /\ res = [p \in Procs |-> NoResult]
  /\ upd = [p \in Procs |-> NoUpdate]
  /\ out = [p \in Procs |-> NoOut]
  /\ http = [p \in Procs |-> NoPost]
  /\ alertId = [p \in Procs |-> 0]
  /\ EmptyStore
  /\ faults = 0 /\ serial = TRUE /\ budget = Unbounded
  /\ \E alert \in StockAlerts, allUsers \in UserCollections,
        allPreferences \in PreferenceCollections, clock \in Clocks, readsFail \in BOOLEAN :
       call = EligibilityCall(alert, allUsers, allPreferences, clock, readsFail)
  /\ dist = NoDistribution

NextSuppliers == ApplyEligible

SpecSuppliers == InitSuppliers /\ [][NextSuppliers]_vars

(* The suppliers of the call with no active record of preferences. *)
OpenSuppliers ==
  {s \in Range(queryDocuments(call.args[2], "role", "supplier")) :
     ~\E i \in 1..Len(call.args[3]) :
        call.args[3][i].supplierId = s.uid /\ call.args[3][i].isActive}

(* C30: when getEligibleSuppliers has read the store, every supplier with no
   active record of preferences is among the suppliers it returns, whatever
   the alert and the time. *)
C30_OpenDefault ==
  (call.fn = "getEligibleSuppliers" /\ call.returned /\ ~call.args[5])
    => \A s \in OpenSuppliers : s \in Range(call.result)

(* A supplier whose record is not active and would refuse the alert on every
   count is returned, next to one with no record. *)
C30_Witness ==
  /\ call.fn = "getEligibleSuppliers" /\ call.returned /\ ~call.args[5]
  /\ Len(call.args[3]) = 1
  /\ ~call.args[3][1].isActive
  /\ call.args[3][1].urgencyLevels = <<"critical">>
  /\ call.args[3][1].businessHours # Absent
  /\ call.args[1].overallUrgency = "medium"
  /\ call.args[4].day = 0
  /\ Len(call.result) = 2


----------------------------------------------------------------------------
(* The first supplier of the call, its record of preferences when the
   collection has one, and whether getEligibleSuppliers returned it. *)
FirstSupplier == call.args[2][2]
HasRecord == call.args[3] # <<>>
Record == call.args[3][1]
Returned1 == FirstSupplier \in Range(call.result)

(* getEligibleSuppliers has read the store and returned. *)
Filtered == call.fn = "getEligibleSuppliers" /\ call.returned /\ ~call.args[5]

(* The filters of an active record, each as the design states it. *)
OutsideHours ==
  /\ Record.businessHours # Absent
  /\ \/ call.args[4].day \notin {1, 2, 3, 4, 5}
     \/ call.args[4].time = <<"1", "9", ":", "0", "0">>

UrgencyRefused ==
  Record.urgencyLevels # <<>> /\ call.args[1].overallUrgency \notin Range(Record.urgencyLevels)

CategoryRefused ==
  /\ Record.drugCategories # <<>>
  /\ \A i \in 1..Len(call.args[1].drugs) :
       call.args[1].drugs[i].category \notin Range(Record.drugCategories)

RegionRefused ==
  /\ Record.geographicRegions # <<>>
  /\ call.args[1].location # Absent
  /\ call.args[1].location[1].address = <<"N", "b", "i">>

OrderTooSmall ==
  /\ Record.minimumOrderValue = Present(1000)
  /\ call.args[1].drugs[1].requestedQuantity = 5

TooFar ==
  /\ Record.maxDistance = Present(100)
  /\ call.args[1].location # Absent
  /\ call.args[1].location[1].latitude = Present(1)
  /\ FirstSupplier.location = <<"3", ",", " ", "3", "7">>

(* C31: a supplier whose active record accepts only critical alerts is not
   returned for a medium alert, whatever the other fields of the record; and
   a supplier whose active record refuses the alert on any one filter is not
   returned, whatever the other filters say. *)
C31_OneFilterExcludes ==
  (Filtered /\ HasRecord /\ Record.isActive)
    => /\ (Record.urgencyLevels = <<"critical">> /\ call.args[1].overallUrgency = "medium")
            => ~Returned1
       /\ (\/ OutsideHours \/ UrgencyRefused \/ CategoryRefused
           \/ RegionRefused \/ TooFar \/ OrderTooSmall)
            => ~Returned1

(* A record that accepts the alert's category, region and size at any hour
   and only critical alerts has kept its supplier from a medium alert, while
   the other supplier is returned. *)
C31_Witness ==
  /\ Filtered /\ HasRecord /\ Record.isActive
  /\ Record.urgencyLevels = <<"critical">> /\ call.args[1].overallUrgency = "medium"
  /\ Record.businessHours = Absent /\ Record.drugCategories = <<>>
  /\ Record.geographicRegions = <<>> /\ Record.maxDistance = Absent
  /\ Record.minimumOrderValue = Absent
  /\ Len(call.result) = 1

(* C31 as stated: the supplier is excluded whatever the record's active flag. *)
C31_ExcludedWhateverActiveFlag ==
  (Filtered /\ HasRecord)
    => ((Record.urgencyLevels = <<"critical">> /\ call.args[1].overallUrgency = "medium")
          => ~Returned1)


(* The data a filter needs is absent. *)
NoHoursData == Record.businessHours = Absent
NoUrgencyData == Record.urgencyLevels = <<>>
NoCategoryData == Record.drugCategories = <<>>
NoRegionData == Record.geographicRegions = <<>> \/ call.args[1].location = Absent
NoDistanceData ==
  \/ Record.maxDistance = Absent
  \/ call.args[1].location = Absent
  \/ FirstSupplier.location \in {<<>>, <<"N", "b", "i">>}
NoOrderData == Record.minimumOrderValue = Absent

(* The supplier without an active record, last of the users collection. *)
SecondSupplier == call.args[2][3]

(* C32: a filter whose data is absent passes: a supplier with an active
   record is returned when every filter either lacks its data or accepts the
   alert, and the supplier next to it is returned whatever the record lacks. *)
C32_AbsentDataPasses ==
  (Filtered /\ HasRecord /\ Record.isActive)
    => /\ ( /\ (NoHoursData \/ ~OutsideHours)
            /\ (NoUrgencyData \/ ~UrgencyRefused)
            /\ (NoCategoryData \/ ~CategoryRefused)
            /\ (NoRegionData \/ ~RegionRefused)
            /\ (NoDistanceData \/ ~TooFar)
            /\ (NoOrderData \/ ~OrderTooSmall) ) => Returned1
       /\ SecondSupplier \in Range(call.result)

(* On a Sunday a supplier whose active record has no business hours, no
   categories, no regions, no maximum distance and no minimum order value is
   returned for an alert without location, with the other supplier. *)
C32_Witness ==
  /\ Filtered /\ HasRecord /\ Record.isActive
  /\ NoHoursData /\ NoCategoryData /\ Record.geographicRegions = <<>>
  /\ Record.maxDistance = Absent /\ NoOrderData
  /\ Record.urgencyLevels = <<"critical">> /\ call.args[1].overallUrgency = "critical"
  /\ call.args[1].location = Absent
  /\ call.args[4].day = 0
  /\ Len(call.result) = 2


----------------------------------------------------------------------------
(* Distribution of an alert to the suppliers *)

(* preferences?.notificationMethods || ['sms'] of the first record found *)
notificationMethodsOf(preferencesResults) ==
  IF preferencesResults = <<>> THEN <<"sms">> ELSE preferencesResults[1].notificationMethods

(* What the gateway does with a message: it accepts it, answers with a
   failed recipient, answers without recipients, or the call throws. *)
GatewayOutcomes ==
  IF faults > 0 THEN {"Success", "InsufficientBalance", "NoRecipients", "Throws"}
  ELSE {"Success"}

(* sendSMS: the answer for an outcome of the gateway. *)
sendSMS(outcome) ==
  CASE outcome = "Success" ->
         [success |-> TRUE, error |-> Absent, messageId |-> Present("ATXid_1")]
    [] outcome = "NoRecipients" ->
         [success |-> FALSE, error |-> Present("No recipients in response"),
          messageId |-> Absent]
    [] outcome = "Throws" ->
         [success |-> FALSE, error |-> Present("Failed to send SMS"), messageId |-> Absent]
    [] OTHER ->
         [success |-> FALSE, error |-> Present("SMS failed: " \o outcome),
          messageId |-> Present("ATXid_1")]

(* The record sendSMS keeps of a message in 'smsDeliveries'; none when the
   gateway answers without recipients. *)
deliveryRecord(outcome) ==
  CASE outcome = "Success" -> <<[alertId |-> call.args[1].id, status |-> "sent"]>>
    [] outcome = "NoRecipients" -> <<>>
    [] OTHER -> <<[alertId |-> call.args[1].id, status |-> "failed"]>>

(* distributionLog of sendSMSAlert *)
distributionLog(supplier, smsResponse) ==
  [alertId |-> call.args[1].id,
   supplierId |-> supplier.uid,
   notificationMethod |-> "sms",
   status |-> IF smsResponse.success THEN "sent" ELSE "failed",
   failureReason |-> IF smsResponse.success THEN Absent ELSE smsResponse.error,
   messageId |-> smsResponse.messageId]

(* The steps leave the handler and the function calls alone. *)
DistributionOnly ==
  UNCHANGED <<now, sessions, users, alerts, nextId, pc, req, ses, usr, res, upd, out,
              serial, budget, http, alertId>>

(* distributeAlertToSuppliers(alert): getEligibleSuppliers reads the users
   and the preferences; when a read fails it returns no supplier. *)
DistributeStart ==
  /\ call.fn = "distributeAlertToSuppliers" /\ dist.pc = "idle"
  /\ \E ok \in Outcomes :
       /\ Called(ok)
       /\ dist' = [dist EXCEPT
                     !.pc = "supplier",
                     !.suppliers = getEligibleSuppliers(call.args[1], call.args[2],
                                                        call.args[3], call.args[4], ~ok)]
  /\ UNCHANGED call
  /\ DistributionOnly

(* sendAlertToSupplier(supplier, alert): the supplier's preferences are
   read; when the read fails the catch leaves the supplier out. *)
SendAlertToSupplier ==
  /\ dist.pc = "supplier" /\ dist.suppliers # <<>>
  /\ \E ok \in Outcomes :
       /\ Called(ok)
       /\ IF ok
            THEN dist' = [dist EXCEPT
                            !.pc = "method",
                            !.methods = notificationMethodsOf(
                                          queryDocuments(call.args[3], "supplierId",
                                                         Head(dist.suppliers).uid))]
            ELSE dist' = [dist EXCEPT !.suppliers = Tail(@)]
  /\ UNCHANGED call
  /\ DistributionOnly

(* for (const method of notificationMethods): an SMS for a supplier with a
   phone number, a line in the log for an e-mail, nothing otherwise; after
   the last method the next supplier. *)
NextMethod ==
  /\ dist.pc = "method"
  /\ IF dist.methods = <<>>
       THEN dist' = [dist EXCEPT !.pc = "supplier", !.suppliers = Tail(@)]
       ELSE LET supplier == Head(dist.suppliers)
                method == Head(dist.methods)
            IN  IF method = "sms" /\ supplier.phoneNumber # ""
                  THEN dist' = [dist EXCEPT
                                  !.pc = "sms",
                                  !.visited = Append(@, <<supplier.uid, method>>)]
                  ELSE dist' = [dist EXCEPT
                                  !.methods = Tail(@),
                                  !.visited = Append(@, <<supplier.uid, method>>)]
  /\ UNCHANGED <<call, faults>>
  /\ DistributionOnly

(* sendSMSAlert calls sendSMS, which sends the message through the gateway
   and keeps its own record; a failure to write that record is swallowed. *)
SendSMS ==
  /\ dist.pc = "sms"
  /\ \E outcome \in GatewayOutcomes :
       \E saved \in (IF outcome = "Success" THEN Outcomes ELSE {TRUE}) :
         /\ faults' = IF outcome = "Success" /\ saved THEN faults ELSE faults - 1
         /\ dist' = [dist EXCEPT
                       !.pc = "log",
                       !.smsResponse = sendSMS(outcome),
                       !.attempts = Append(@, [supplierId |-> Head(dist.suppliers).uid,
                                               channel |-> "sms",
                                               success |-> outcome = "Success"]),
                       !.smsDeliveries = IF saved THEN @ \o deliveryRecord(outcome) ELSE @]
  /\ UNCHANGED call
  /\ DistributionOnly

(* sendSMSAlert adds the distribution log to 'alertDistributions'; when the
   write fails the catch of sendSMSAlert logs the error. *)
LogDistribution ==
  /\ dist.pc = "log"
  /\ \E ok \in Outcomes :
       /\ Called(ok)
       /\ dist' = [dist EXCEPT
                     !.pc = "method",
                     !.methods = Tail(@),
                     !.smsResponse = Null,
                     !.alertDistributions =
                        IF ok THEN Append(@, distributionLog(Head(dist.suppliers),
                                                             dist.smsResponse))
                        ELSE @]
  /\ UNCHANGED call
  /\ DistributionOnly

(* distributeAlertToSuppliers returns after the last supplier. *)
DistributeReturn ==
  /\ dist.pc = "supplier" /\ dist.suppliers = <<>>
  /\ dist' = [dist EXCEPT !.pc = "done"]
  /\ call' = [call EXCEPT !.returned = TRUE]
  /\ UNCHANGED faults
  /\ DistributionOnly

(* The inputs tried: two suppliers, the first with or without a phone
   number, without record or with a record that accepts every alert or only
   critical ones and names its notification methods. *)
Accepting(uid, urgency, methods) ==
  [supplierId |-> uid, isActive |-> TRUE, businessHours |-> Absent,
   urgencyLevels |-> urgency, drugCategories |-> <<>>, geographicRegions |-> <<>>,
   maxDistance |-> Absent, minimumOrderValue |-> Absent, notificationMethods |-> methods]

MethodLists == {<<"sms">>, <<"email", "sms">>, <<"sms", "email">>, <<"inApp">>, <<>>}

DistributionPreferences ==
  {<<>>}
  \cup {<<Accepting("s1", urgency, methods)>> :
          urgency \in {<<>>, <<"critical">>}, methods \in MethodLists}

DistributionUsers ==
  {<<Hospital("h1"), [Supplier("s1", <<>>) EXCEPT !.phoneNumber = phoneNumber],
     Supplier("s2", <<>>)>> : phoneNumber \in {"", "+254700000001"}}

DistributionAlerts == {alert \in StockAlerts : alert.location = Absent}

DistributionCalls ==
  {Calling("distributeAlertToSuppliers", <<alert, allUsers, allPreferences, clock>>) :
     alert \in DistributionAlerts, allUsers \in DistributionUsers,
     allPreferences \in DistributionPreferences,
     clock \in {[day |-> 1, time |-> <<"0", "9", ":", "0", "0">>]}}

InitDistribute ==
  /\ now = 0
  /\ pc = [p \in Procs |-> "idle"]
  /\ req = [p \in Procs |-> NoRequest]
  /\ ses = [p \in Procs |-> Null]
  /\ usr = [p \in Procs |-> Null]
  /\ res = [p \in Procs |-> NoResult]
  /\ upd = [p \in Procs |-> NoUpdate]
  /\ out = [p \in Procs |-> NoOut]
  /\ http = [p \in Procs |-> NoPost]
  /\ alertId = [p \in Procs |-> 0]
  /\ EmptyStore
  /\ faults = MaxFaults /\ serial = TRUE /\ budget = Unbounded
  /\ call \in DistributionCalls
  /\ dist = NoDistribution

NextDistribute ==
  \/ DistributeStart
  \/ SendAlertToSupplier
  \/ NextMethod
  \/ SendSMS
  \/ LogDistribution
  \/ DistributeReturn

SpecDistribute == InitDistribute /\ [][NextDistribute]_vars


----------------------------------------------------------------------------
(* The distribution logs of a call of sendSMS. *)
LogsOf(attempt) ==
  {j \in 1..Len(dist.alertDistributions) :
     /\ dist.alertDistributions[j].alertId = call.args[1].id
     /\ dist.alertDistributions[j].supplierId = attempt.supplierId
     /\ dist.alertDistributions[j].notificationMethod = attempt.channel}

(* C33: when the distribution of an alert has returned, every call of
   sendSMS made for a supplier, successful or not, has exactly one
   distribution log for the alert, the supplier and the channel, with status
   sent or failed and, when failed, the reason. *)
C33_OneRecordPerAttempt ==
  dist.pc = "done"
    => \A i \in 1..Len(dist.attempts) :
         /\ Cardinality(LogsOf(dist.attempts[i])) = 1
         /\ \A j \in LogsOf(dist.attempts[i]) :
              /\ dist.alertDistributions[j].status
                   = IF dist.attempts[i].success THEN "sent" ELSE "failed"
              /\ ~dist.attempts[i].success
                   => dist.alertDistributions[j].failureReason # Absent


(* The suppliers the filters accept for the alert, and those of them an SMS
   is due to: with a phone number and sms among their notification methods. *)
EligibleSet ==
  Range(getEligibleSuppliers(call.args[1], call.args[2], call.args[3], call.args[4], FALSE))

SmsDue ==
  {s \in EligibleSet :
     /\ s.phoneNumber # ""
     /\ "sms" \in Range(notificationMethodsOf(queryDocuments(call.args[3], "supplierId", s.uid)))}

(* The suppliers an SMS is due to for whom sendSMS was never called. *)
Missed ==
  {s \in SmsDue : \A i \in 1..Len(dist.attempts) : dist.attempts[i].supplierId # s.uid}

(* C34: a failure while one supplier is handled keeps the alert from that
   supplier at most: when the distribution has returned, no more suppliers
   have gone without a call of sendSMS than calls of the store or the
   gateway have failed. *)
C34_FailureStaysWithItsSupplier ==
  dist.pc = "done" => Cardinality(Missed) <= MaxFaults - faults


----------------------------------------------------------------------------
(* A request that found or created its session returns. *)
RequestEnds(p) == pc[p] \notin {"idle", "done"} /\ pc'[p] = "done" /\ ses[p] # Null

(* C35: when a request returns, the stored session has the level that was
   returned to the caller, or the level it had when none was returned, the
   data of the result, or the data it had when the result has none, and the
   time stamp of the request's update. *)
C35_StoredIsWhatWasShown ==
  [][\A p \in Procs :
       RequestEnds(p) =>
         /\ HasStored(req[p].sessionId)'
         /\ Stored(req[p].sessionId)'.currentLevel
              = LevelOr(out'[p].nextLevel, ses[p].currentLevel)
         /\ Stored(req[p].sessionId)'.sessionData
              = DataOr(res[p].sessionData, ses[p].sessionData)
         /\ Has(upd[p].fields, "lastActivityAt")
         /\ Stored(req[p].sessionId)'.lastActivityAt = upd[p].fields["lastActivityAt"]]_vars


(* C36: a session document whose status is expired, completed or cancelled
   keeps that status: no later request writes a different one. *)
C36_TerminalStatusKept ==
  [][\A i \in 1..Len(sessions) : \A j \in 1..Len(sessions') :
       (SameDoc(sessions[i], sessions'[j]) /\ sessions[i].status \in Terminal)
         => sessions'[j].status = sessions[i].status]_vars


(* C37: when a request for a stored session has returned with endSession
   true, the stored session is not active any more. *)
C37_EndedSessionNotActive ==
  \A p \in Procs :
    (pc[p] = "done" /\ out[p].endSession /\ HasStored(req[p].sessionId))
      => Stored(req[p].sessionId).status # "active"


(* The levels of the menu and the steps between them. *)
MenuLevels == {1, 2, 3, 4, 5, 6, 10, 11, 12}

MenuGraph ==
  {<<1, 2>>, <<2, 2>>, <<2, 3>>, <<2, 10>>, <<3, 2>>, <<3, 3>>, <<3, 4>>,
   <<4, 3>>, <<4, 4>>, <<4, 5>>, <<5, 5>>, <<5, 6>>, <<6, 6>>,
   <<10, 10>>, <<10, 11>>, <<11, 11>>, <<11, 12>>, <<12, 12>>}

SessionError == "Session error. Please dial *789*12345# to start again."

(* C38: every stored session is at one of the levels 1, 2, 3, 4, 5, 6, 10,
   11, 12; a step changes the level of a stored session only along the menu
   graph, and the write that ends a request moves its session along the menu
   graph from the level the request read; no request gets the session error
   response. *)
C38_OnlyMenuGraphSteps ==
  [][/\ \A j \in 1..Len(sessions') : sessions'[j].currentLevel \in MenuLevels
     /\ \A i \in 1..Len(sessions) : \A j \in 1..Len(sessions') :
          SameDoc(sessions[i], sessions'[j]) =>
            \/ sessions'[j].currentLevel = sessions[i].currentLevel
            \/ <<sessions[i].currentLevel, sessions'[j].currentLevel>> \in MenuGraph
     /\ \A p \in Procs :
          Persisted(p) =>
            <<ses[p].currentLevel, Stored(req[p].sessionId)'.currentLevel>> \in MenuGraph
     /\ \A p \in Procs :
          pc'[p] = "done" => out'[p].response.text # SessionError]_vars

(* A request took its session from level 4 back to level 3, and the stored
   session is at level 3. *)
C38_Witness ==
  \E p \in Procs :
    /\ MenuReturned(p)
    /\ ses[p].currentLevel = 4
    /\ req[p].input = <<"0">>
    /\ HasStored(req[p].sessionId)
    /\ Stored(req[p].sessionId).currentLevel = 3


(* The keys of the session data that a session at the given level has been
   asked for on its way there. *)
KeysAt(level) ==
  CASE level = 3 -> {"categories"}
    [] level = 4 -> {"categories", "categoryDrugs"}
    [] level = 5 -> {"categories", "categoryDrugs", "selectedDrug"}
    [] level = 6 -> {"categories", "categoryDrugs", "selectedDrug", "quantity"}
    [] level = 11 -> {"name"}
    [] level = 12 -> {"name", "facilityName"}
    [] OTHER -> {}

Complete(session) == KeysAt(session.currentLevel) \subseteq DOMAIN session.sessionData

(* C39: the data of every stored session are complete for its level, and so
   are those of every session a request has read: a submission at level 6
   finds the selected drug and the quantity, a registration at level 12 the
   name and the facility name. *)
C39_DataCompleteForLevel ==
  /\ \A i \in 1..Len(sessions) : Complete(sessions[i])
  /\ \A p \in Procs : (pc[p] \notin {"idle", "get", "create"} /\ ses[p] # Null) => Complete(ses[p])

(* Two requests read the session while it asked for the drug; one chose a
   drug and the other, which wrote last, made no valid choice: the stored
   session asks for the drug again. *)
C39_Witness ==
  \E p, q \in Procs :
    /\ p # q
    /\ pc[p] = "done" /\ pc[q] = "done"
    /\ req[p].sessionId = req[q].sessionId
    /\ ses[p] # Null /\ ses[q] # Null
    /\ ses[p].currentLevel = 4 /\ ses[q].currentLevel = 4
    /\ res[p].nextLevel = 5 /\ res[q].nextLevel = 4
    /\ HasStored(req[p].sessionId)
    /\ Stored(req[p].sessionId).currentLevel = 4


(* C40: the users collection has at most one document per phone number,
   whatever requests a registration session or a second session of the same
   caller receives. *)
C40_OneCallerRecordPerPhone ==
  \A i, j \in 1..Len(users) :
    users[i].phoneNumber = users[j].phoneNumber => i = j

====
